---- MODULE Spec2Model ----
(***************************************************************************)
(* Model of the scenario generator (scenariogen): the two generators, the  *)
(* shared random source, the preset registry and facade, the serializer    *)
(* and the run orchestrator; and of the PetClinic load user that replays   *)
(* a schedule against the demo application.                                *)
(*                                                                         *)
(* Numbers.  A generated value is a double, computed with the arithmetic   *)
(* of the section on doubles below.  Parameters are given on these grids   *)
(* and stand for the double nearest to the number they name:               *)
(*   avg_values, sigma_low, sigma_high, load_threshold, min_value,         *)
(*   target, start, sigma  : whole numbers                                 *)
(*   sigma_week            : hundredths   (15 is 0.15)                     *)
(*   spike_prob            : percent      (3 is 0.03)                      *)
(*   spike_mult            : tenths       (14 is 1.4)                      *)
(*   day_length_hours      : a fraction [n |-> .., d |-> ..]               *)
(* An optional value (seed, Phase.start) is <<>> for None and <<x>> for x. *)
(***************************************************************************)
EXTENDS Integers, Sequences, FiniteSets, TLC

VARIABLES
    rng,        \* the shared random source np.random: [key, pos]
    registry,   \* the module-level dict PRESETS
    fs,         \* the file system: [dirs, files]
    last,       \* the last completed top-level invocation
    prev,       \* the invocation before it
    ncalls,     \* number of completed invocations
    pet_ids,    \* PetClinicUser.pet_ids, the list of the class that all users share
    users,      \* each load user: its owner_ids and vet_ids, and where it stands
    task        \* the latest task a load user returned from

vars == <<rng, registry, fs, last, prev, ncalls, pet_ids, users, task>>

None == <<>>
Some(x) == <<x>>

Max2(a, b) == IF a >= b THEN a ELSE b
Min2(a, b) == IF a <= b THEN a ELSE b
Abs(x) == IF x < 0 THEN -x ELSE x

\* int(x) / astype(int) of the quotient a / b (b > 0): truncation toward zero
TruncDiv(a, b) == IF a >= 0 THEN a \div b ELSE -((-a) \div b)

RECURSIVE SumSeq(_)
SumSeq(s) == IF s = <<>> THEN 0 ELSE Head(s) + SumSeq(Tail(s))

(***************************************************************************)
(* Double-precision arithmetic.  The code's numbers are doubles, and so    *)
(* are the model's: a double other than 0 is [s, m, e], the number         *)
(* s * m * 2^e, with the sign s in {-1, 1} and m a whole number of 60      *)
(* bits, 2^59 <= m < 2^60, whose low seven bits are 0: the 53 bits of the  *)
(* significand.  m is held as four limbs of 15 bits, the most significant  *)
(* first.  Results are rounded to nearest, ties to even.  Exponents are    *)
(* not bounded: no overflow to infinity, no subnormal numbers.             *)
(***************************************************************************)
Base == 32768

RECURSIVE Pow2(_)
Pow2(n) == IF n <= 0 THEN 1 ELSE 2 * Pow2(n - 1)

\* the number of bits of n: n < 2^BitLen(n), and 2^(BitLen(n) - 1) <= n for n > 0
RECURSIVE BitLen(_)
BitLen(n) == IF n <= 0 THEN 0 ELSE 1 + BitLen(n \div 2)

\* the limbs t[1..i] with the carry or borrow c taken in at t[i] and passed
\* on; the first limb keeps what is left, sign included
RECURSIVE Carried(_, _, _, _)
Carried(t, i, c, done) ==
    IF i = 1 THEN <<t[1] + c>> \o done
    ELSE Carried(t, i - 1, (t[i] + c) \div Base, <<(t[i] + c) % Base>> \o done)

Norm(t) == Carried(t, Len(t), 0, <<>>)

\* x < y, for x and y of four limbs
Less(x, y) ==
    \/ x[1] < y[1]
    \/ x[1] = y[1] /\ x[2] < y[2]
    \/ x[1] = y[1] /\ x[2] = y[2] /\ x[3] < y[3]
    \/ x[1] = y[1] /\ x[2] = y[2] /\ x[3] = y[3] /\ x[4] < y[4]

\* x / 2, whole
Halved(x) ==
    <<x[1] \div 2, x[2] \div 2 + (x[1] % 2) * (Base \div 2),
      x[3] \div 2 + (x[2] % 2) * (Base \div 2), x[4] \div 2 + (x[3] % 2) * (Base \div 2)>>

Zero == [s |-> 0, m |-> <<0, 0, 0, 0>>, e |-> 0]

\* the 60 bits of the whole number n > 0 of len bits, len <= 30
Leading(n, len) ==
    IF len <= 15 THEN <<n * Pow2(15 - len), 0, 0, 0>>
    ELSE <<n \div Pow2(len - 15), (n % Pow2(len - 15)) * Pow2(30 - len), 0, 0>>

\* float(n) for a whole number n, |n| < 2^30
FromInt(n) ==
    IF n = 0 THEN Zero
    ELSE [s |-> IF n < 0 THEN -1 ELSE 1, m |-> Leading(Abs(n), BitLen(Abs(n))),
          e |-> BitLen(Abs(n)) - 60]

\* -x
FNeg(x) == [x EXCEPT !.s = -@]

\* |x| < |y|, for x and y other than 0
Smaller(x, y) == x.e < y.e \/ (x.e = y.e /\ Less(x.m, y.m))

\* An operation on doubles takes its operands by value: each is computed once,
\* whatever expression stands for it.
Only(S) == CHOOSE v \in S : TRUE

\* An array holds its elements: each is computed once, when the array is made.
Array(vals) == vals \o <<>>

Under(x, y) ==
    IF x.s /= y.s THEN x.s < y.s
    ELSE IF x.s = 0 THEN FALSE
    ELSE IF x.s = 1 THEN Smaller(x, y)
    ELSE Smaller(y, x)

\* x < y
FLess(x, y) == Only({Under(a, b) : a \in {x}, b \in {y}})

\* max(x, y)
FMax(x, y) == Only({IF Under(a, b) THEN b ELSE a : a \in {x}, b \in {y}})

\* x <= y
FLeq(x, y) == ~FLess(y, x)

\* abs(x)
FAbs(x) == [x EXCEPT !.s = Abs(@)]

\* the last limb of 60 bits rounded to 53: its low seven bits and whether
\* anything lies below them decide
RoundedLimb(q, sticky) ==
    LET low == q % 128
    IN  IF low > 64 \/ (low = 64 /\ (sticky \/ (q \div 128) % 2 = 1))
        THEN q - low + 128
        ELSE q - low

\* a significand that rounding took to 2^60 is 2^59 with the next exponent
Renorm(s, m, e) ==
    IF m[1] >= Base THEN [s |-> s, m |-> <<Base \div 2, 0, 0, 0>>, e |-> e + 1]
    ELSE [s |-> s, m |-> m, e |-> e]

\* 60 bits q, with more below them if sticky, as a double of sign s
Rounded(s, q, sticky, e) ==
    Renorm(s, Norm(<<q[1], q[2], q[3], RoundedLimb(q[4], sticky)>>), e)

\* the digit q lowered until the rest t = r * Base - q * d is not negative
RECURSIVE Settled(_, _, _)
Settled(q, t, d) ==
    IF t[1] < 0
    THEN Settled(q - 1, Norm(<<t[1], t[2] + d[1], t[3] + d[2], t[4] + d[3], t[5] + d[4]>>), d)
    ELSE [q |-> q, r |-> Tail(t)]

\* r * Base - q * d
Rest(r, q, d) ==
    Norm(<<r[1], r[2] - q * d[1], r[3] - q * d[2], r[4] - q * d[3], -(q * d[4])>>)

\* the next digit of the quotient, r < d being the remainder so far: the
\* estimate from the leading limbs is the digit or up to two above it
QuotientDigit(r, qhat, d) == Settled(qhat, Rest(r, qhat, d), d)

\* n more digits of the quotient q of a division by d
RECURSIVE QuotientDigits(_, _, _, _), Brought(_, _, _, _)
QuotientDigits(n, r, q, d) ==
    IF n = 0 THEN [q |-> q, r |-> r]
    ELSE Brought(n, QuotientDigit(r, Min2(Base - 1, (r[1] * Base + r[2]) \div d[1]), d), q, d)

Brought(n, g, q, d) == QuotientDigits(n - 1, g.r, Append(q, g.q), d)

Quotient(s, w, e) == Rounded(s, w.q, w.r /= <<0, 0, 0, 0>>, e)

\* x / y, for y other than 0
Divided(x, y) ==
    IF x.s = 0 THEN Zero
    ELSE IF Less(x.m, y.m)
    THEN Quotient(x.s * y.s, QuotientDigits(4, x.m, <<>>, y.m), x.e - y.e - 60)
    ELSE Quotient(x.s * y.s, QuotientDigits(4, Halved(x.m), <<>>, y.m), x.e - y.e - 59)

\* x / y
FDiv(x, y) == Only({Divided(a, b) : a \in {x}, b \in {y}})

\* the double nearest to n / d: the number the literal n/d denotes
Ratio(n, d) == FDiv(FromInt(n), FromInt(d))

\* the five limbs t, of 60 bits and log2(p) more, brought to 60 bits
Shifted(t, p) ==
    <<(t[1] % p) * (Base \div p) + t[2] \div p, (t[2] % p) * (Base \div p) + t[3] \div p,
      (t[3] % p) * (Base \div p) + t[4] \div p, (t[4] % p) * (Base \div p) + t[5] \div p>>

Product(s, t, k, e) == Rounded(s, Shifted(t, Pow2(k)), t[5] % Pow2(k) /= 0, e + k)

Scaled(s, t, e) == Product(s, t, BitLen(t[1]), e)

\* the four limbs m times the whole number k < 2^15, as five limbs
Row(m, k) == Norm(<<0, m[1] * k, m[2] * k, m[3] * k, m[4] * k>>)

\* float(k) * x for a whole number k, |k| < 2^15
Multiple(k, x) ==
    IF k = 0 \/ x.s = 0 THEN Zero
    ELSE Scaled(IF k < 0 THEN -x.s ELSE x.s, Row(x.m, Abs(k)), x.e)

\* float(k) * x
FMulInt(k, x) == Only({Multiple(j, a) : j \in {k}, a \in {x}})

\* the rows m * y[1], .., m * y[4] added up where they stand: eight limbs
Rows(r1, r2, r3, r4) ==
    Norm(<<r1[1], r1[2] + r2[1], r1[3] + r2[2] + r3[1], r1[4] + r2[3] + r3[2] + r4[1],
           r1[5] + r2[4] + r3[3] + r4[2], r2[5] + r3[4] + r4[3], r3[5] + r4[4], r4[5]>>)

\* the eight limbs t, of 119 or 120 bits, as a double
Long(s, t, e) ==
    IF t[1] >= Base \div 2
    THEN Rounded(s, SubSeq(t, 1, 4), SubSeq(t, 5, 8) /= <<0, 0, 0, 0>>, e + 60)
    ELSE Rounded(s, <<2 * t[1] + (t[2] \div (Base \div 2)),
                      ((2 * t[2]) % Base) + (t[3] \div (Base \div 2)),
                      ((2 * t[3]) % Base) + (t[4] \div (Base \div 2)),
                      ((2 * t[4]) % Base) + (t[5] \div (Base \div 2))>>,
                 t[5] % (Base \div 2) /= 0 \/ SubSeq(t, 6, 8) /= <<0, 0, 0>>, e + 59)

\* x * y
Times(x, y) ==
    IF x.s = 0 \/ y.s = 0 THEN Zero
    ELSE Long(x.s * y.s,
              Rows(Row(x.m, y.m[1]), Row(x.m, y.m[2]), Row(x.m, y.m[3]), Row(x.m, y.m[4])),
              x.e + y.e)

\* x * y
FMul(x, y) == Only({Times(a, b) : a \in {x}, b \in {y}})

\* the limbs t moved down by a limbs and by log2(p) bits, p < Base
MovedDown(t, a, p) ==
    [i \in 1..4 |->
        (IF 1 < i - a /\ i - a <= 4 THEN (t[i - a - 1] % p) * (Base \div p) ELSE 0)
        + (IF 1 <= i - a /\ i - a <= 4 THEN t[i - a] \div p ELSE 0)]

\* whether the move down dropped a bit that was set
Lost(t, a, p) ==
    \/ \E i \in 1..4 : i > 4 - a /\ t[i] /= 0
    \/ a < 4 /\ t[4 - a] % p /= 0

\* the limbs t moved up by a limbs and by log2(p) bits
MovedUp(t, a, p) ==
    [i \in 1..4 |->
        (IF i + a <= 4 THEN ((t[i + a] * p) % Base) ELSE 0)
        + (IF i + a + 1 <= 4 THEN t[i + a + 1] \div (Base \div p) ELSE 0)]

\* the number of bits of the limbs t
Bits(t) ==
    IF t[1] > 0 THEN 45 + BitLen(t[1])
    ELSE IF t[2] > 0 THEN 30 + BitLen(t[2])
    ELSE IF t[3] > 0 THEN 15 + BitLen(t[3])
    ELSE BitLen(t[4])

\* the sum t of two significands, of 60 or 61 bits
Sum(s, t, sticky, e) ==
    IF t[1] >= Base THEN Rounded(s, Halved(t), sticky \/ t[4] % 2 = 1, e + 1)
    ELSE Rounded(s, t, sticky, e)

\* the difference t > 0 of two significands, of k bits less than 60
Difference(s, t, k, sticky, e) ==
    Rounded(s, MovedUp(t, k \div 15, Pow2(k % 15)), sticky, e - k)

Gap(s, t, sticky, e) == Difference(s, t, 60 - Bits(t), sticky, e)

\* x.m with y.m, brought down to the exponent of x and of the same sign, added
Plus(x, y, low, sticky) ==
    Sum(x.s, Norm(<<x.m[1] + low[1], x.m[2] + low[2], x.m[3] + low[3], x.m[4] + low[4]>>),
        sticky, x.e)

\* the same with y of the other sign: what was dropped of y counts as a borrow
Minus(x, y, low, sticky) ==
    Gap(x.s, Norm(<<x.m[1] - low[1], x.m[2] - low[2], x.m[3] - low[3],
                    x.m[4] - low[4] - (IF sticky THEN 1 ELSE 0)>>),
        sticky, x.e)

\* x + y for |x| >= |y| > 0, y lying d binary places under x
Aligned(x, y, d) ==
    IF d >= 60
    THEN IF x.s = y.s THEN x ELSE Minus(x, y, <<0, 0, 0, 0>>, TRUE)
    ELSE IF x.s = y.s
    THEN Plus(x, y, MovedDown(y.m, d \div 15, Pow2(d % 15)), Lost(y.m, d \div 15, Pow2(d % 15)))
    ELSE Minus(x, y, MovedDown(y.m, d \div 15, Pow2(d % 15)), Lost(y.m, d \div 15, Pow2(d % 15)))

Added(x, y) ==
    IF x.s /= y.s /\ x.e = y.e /\ x.m = y.m THEN Zero ELSE Aligned(x, y, x.e - y.e)

\* x + y
Total(x, y) ==
    IF x.s = 0 THEN y
    ELSE IF y.s = 0 THEN x
    ELSE IF Smaller(x, y) THEN Added(y, x)
    ELSE Added(x, y)

\* x + y
FAdd(x, y) == Only({Total(a, b) : a \in {x}, b \in {y}})

\* x - y
FSub(x, y) == FAdd(x, FNeg(y))

\* int(x), truncation toward zero, for |x| < 2^30
Truncated(x) ==
    LET sh == -x.e
    IN  IF x.s = 0 \/ sh >= 60 THEN 0
        ELSE IF sh >= 45 THEN x.s * (x.m[1] \div Pow2(sh - 45))
        ELSE IF sh >= 30 THEN x.s * (x.m[1] * Pow2(45 - sh) + x.m[2] \div Pow2(sh - 30))
        ELSE x.s * (x.m[1] * Pow2(45 - sh) + x.m[2] * Pow2(30 - sh)
                    + x.m[3] \div Pow2(sh - 15))

\* int(x)
FTrunc(x) == Only({Truncated(a) : a \in {x}})

(***************************************************************************)
(* The shared random source.  Its state is a stream identity (key) and a   *)
(* position in that stream; np.random.seed(k) restarts stream k, a draw    *)
(* reads the stream at the position and advances it.  A source that was    *)
(* never seeded runs a stream chosen by the operating system's entropy.    *)
(* The record threaded through one invocation carries, beside key and pos, *)
(* the counts of what the invocation did to the source.  A raw reading is  *)
(* a number below 500: its hundreds give the standard-normal deviate, its  *)
(* last two digits the uniform deviate in percent.                         *)
(***************************************************************************)
EntropyKeys == {-1}

Raw(key, pos) ==
    ((key + 3) * 7919 + pos * 10473 + (key + 3) * pos * pos * 31 + (pos \div 3) * 177) % 500

\* the seeds np.random.seed takes: 0 <= k < 2^32
SeedInRange(k) == 0 <= k /\ k \div Pow2(16) < Pow2(16)

\* np.random.seed(k): stream k from its start, or ValueError for a seed out of
\* range, the source left as it was
Seed(g, k) ==
    IF SeedInRange(k)
    THEN [status |-> "ok",
          g |-> [key |-> k, pos |-> 0, nseed |-> g.nseed + 1,
                 ndraw |-> g.ndraw, drawsAtSeed |-> g.ndraw]]
    ELSE [status |-> "ValueError", g |-> g]

\* the standard-normal deviate read at offset i of the stream, in -2..2
StdNormalAt(g, i) == (Raw(g.key, g.pos + i) \div 100) - 2

\* the uniform deviate of np.random.random() read at the position, in percent
UniformAt(g) == Raw(g.key, g.pos) % 100

Advance(g, n) == [g EXCEPT !.pos = @ + n, !.ndraw = @ + n]

\* np.random.normal(mu, sigma, n): n samples mu + sigma * z of doubles mu, sigma
Normal(g, mu, sigma, n) ==
    Only({Array([i \in 1..n |-> FAdd(loc, FMulInt(StdNormalAt(g, i - 1), scale))]) :
              loc \in {mu}, scale \in {sigma}})

Enter(r) == [key |-> r.key, pos |-> r.pos, nseed |-> 0, ndraw |-> 0, drawsAtSeed |-> 0]
Leave(g) == [key |-> g.key, pos |-> g.pos]

\* the seed tested for truth instead: if seed: np.random.seed(seed)
SeedIfGiven_Truthy(g, seed) ==
    IF seed /= None /\ seed[1] /= 0 THEN Seed(g, seed[1]) ELSE [status |-> "ok", g |-> g]

\* if seed is not None: np.random.seed(seed)
SeedIfGiven(g, seed) ==
    IF seed /= None THEN Seed(g, seed[1]) ELSE [status |-> "ok", g |-> g]

\* np.clip(vals, min_value, None)
Clip(vals, min_value) ==
    Only({Array([i \in 1..Len(a) |-> FMax(a[i], low)]) :
              a \in {vals}, low \in {FromInt(min_value)}})

(***************************************************************************)
(* Spike injection, shared by both generators.                             *)
(***************************************************************************)
\* the sample divided by the factor: values[i] /= spike_mult
SpikeValue_Divide(v, spike_mult) == FDiv(v, Ratio(spike_mult, 10))

\* values[i] *= spike_mult
SpikeValue(v, spike_mult) == FMul(v, Ratio(spike_mult, 10))

\* the draw made before the threshold is looked at:
\*     if np.random.random() < spike_prob and values[i] > load_threshold: ...
SpikeStep_DrawFirst(p, i, st) ==
    IF UniformAt(st.g) < p.spike_prob /\ FLess(FromInt(p.load_threshold), st.values[i])
    THEN [g |-> Advance(st.g, 1),
          values |-> [st.values EXCEPT ![i] = SpikeValue(@, p.spike_mult)],
          spiked |-> st.spiked \cup {i}]
    ELSE [st EXCEPT !.g = Advance(@, 1)]

\* one turn of the loop, at index i:
\*     if values[i] > load_threshold and np.random.random() < spike_prob:
\*         values[i] *= spike_mult
SpikeStep(p, i, st) ==
    IF ~FLess(FromInt(p.load_threshold), st.values[i]) THEN st
    ELSE IF UniformAt(st.g) < p.spike_prob
    THEN [g |-> Advance(st.g, 1),
          values |-> [st.values EXCEPT ![i] = SpikeValue(@, p.spike_mult)],
          spiked |-> st.spiked \cup {i}]
    ELSE [st EXCEPT !.g = Advance(@, 1)]

\* the turns lo..hi of the loop in index order, the second half of the range
\* entered with what the first half left
RECURSIVE SpikeTurns(_, _, _, _)
SpikeTurns(p, lo, hi, st) ==
    IF lo > hi THEN st
    ELSE IF lo = hi THEN SpikeStep(p, lo, st)
    ELSE CHOOSE out \in {SpikeTurns(p, (lo + hi) \div 2 + 1, hi, half) :
                             half \in {SpikeTurns(p, lo, (lo + hi) \div 2, st)}} : TRUE

\* for i in range(len(values)): ...
SpikeLoop(p, g, values) ==
    CHOOSE out \in {SpikeTurns(p, 1, Len(st.values), st) :
                        st \in {[g |-> g, values |-> values, spiked |-> {}]}} : TRUE

\* if spike_prob > 0: <loop>; values = np.clip(values, min_value, None)
SpikeInjection(p, g, values) ==
    IF p.spike_prob > 0
    THEN Only({[g |-> r.g, values |-> Clip(r.values, p.min_value), spiked |-> r.spiked] :
                   r \in {SpikeLoop(p, g, values)}})
    ELSE [g |-> g, values |-> values, spiked |-> {}]

(***************************************************************************)
(* core.py: generate_values                                                *)
(***************************************************************************)
CoreRequired == {"avg_values", "durations", "day_length_hours", "num_days"}

CoreDefaults ==
    [sigma_week |-> 15, sigma_low |-> 3, sigma_high |-> 80, load_threshold |-> 200,
     spike_prob |-> 3, spike_mult |-> 14, min_value |-> 1, seed |-> None]

\* compaction_factor = 24 / day_length_hours
\* step_length = 60 / compaction_factor
\* in doubles, day_length_hours being the double n / d
StepLength(dlh) ==
    FDiv(FromInt(60), FDiv(FromInt(24), FDiv(FromInt(dlh.n), FromInt(dlh.d))))

\* int(duration * step_length)
CompMinutes(duration, step_length) == FTrunc(FMulInt(duration, step_length))

\* (np.asarray(durations, dtype=int) * step_length).astype(int)
Compacted(durations, step_length) ==
    [i \in 1..Len(durations) |-> CompMinutes(durations[i], step_length)]

\* durations_comp = (np.asarray(durations, dtype=int) * step_length).astype(int)
DurationsComp(durations, dlh) == Compacted(durations, StepLength(dlh))

\* the minutes of whole days: int(num_days * day_length_hours * 60)
ActualSamples_WholeDays(p) ==
    TruncDiv(p.num_days * p.day_length_hours.n * 60, p.day_length_hours.d)

\* actual_samples = num_days * int(sum(durations_comp))
ActualSamples(p) == p.num_days * SumSeq(DurationsComp(p.durations, p.day_length_hours))

\* values[idx : idx + duration] = vals
WriteSlice(arr, idx, vals) ==
    SubSeq(arr, 1, idx) \o vals \o SubSeq(arr, idx + Len(vals) + 1, Len(arr))

\* the blocks (day, step) that wrote each element
MarkSlice(owner, idx, n, blk) ==
    SubSeq(owner, 1, idx) \o [i \in 1..n |-> Append(owner[idx + i], blk)]
        \o SubSeq(owner, idx + n + 1, Len(owner))

\* the regime taken from the jittered mean:
\* sigma = sigma_high if this_avg > load_threshold else sigma_low
BlockSigma_Jittered(p, avg, this_avg) ==
    IF FLess(FromInt(p.load_threshold), this_avg) THEN p.sigma_high ELSE p.sigma_low

\* sigma = sigma_high if avg > load_threshold else sigma_low
BlockSigma(p, avg, this_avg) ==
    IF avg > p.load_threshold THEN p.sigma_high ELSE p.sigma_low

\* the last row reused for the days past the table
ActiveRow_Clamped(day, num_rows) == Min2(day, num_rows - 1)

\* row = day % num_rows
ActiveRow(day, num_rows) == day % num_rows

\* this_avg = np.random.normal(avg, sigma_week * avg)
JitteredMean(g, avg, sigma_week) ==
    FAdd(FromInt(avg),
         FMulInt(StdNormalAt(g, 0), FMul(Ratio(sigma_week, 100), FromInt(avg))))

\* the number of elements the slice arr[idx : idx + n] names in an array of len
\* elements, for idx >= 0 and n >= 0: a slice stops at the end of the array
SliceLen(len, idx, n) == Max2(0, Min2(len, idx + n) - Min2(len, idx))

\* whether numpy refuses sigma_week * avg as a scale: it tests the sign bit of
\* the product, which is set when one factor only is negative, the product
\* -0.0 included (the zeros of the table and of the parameters are +0.0)
NegativeScale(sigma_week, avg) == (sigma_week < 0) /= (avg < 0)

\* one (day, step) block of the main generation loop: the jittered mean, the
\* block's samples, their clamp and their place in the array.  numpy draws
\* nothing from a normal law of negative scale or of negative size.  The
\* slice takes the samples when it names as many elements as there are
\* samples, and a block of one sample is broadcast into whatever the slice
\* names, nothing included when the slice lies past the end of the array;
\* otherwise the assignment fails, the samples already drawn.
BlockSamples(p, dc, day, step, st, avg, this_avg) ==
    LET g1 == Advance(st.g, 1)
        duration == dc[step + 1]
        sigma == BlockSigma(p, avg, this_avg)
        vals == Clip(Normal(g1, this_avg, FromInt(sigma), duration), p.min_value)
        room == SliceLen(Len(st.values), st.idx, duration)
    IN  IF NegativeScale(p.sigma_week, avg) THEN [st EXCEPT !.status = "ValueError"]
        ELSE IF sigma < 0 \/ duration < 0
        THEN [st EXCEPT !.status = "ValueError", !.g = g1]
        ELSE IF duration /= 1 /\ room /= duration
        THEN [st EXCEPT !.status = "ValueError", !.g = Advance(g1, duration)]
        ELSE [status |-> "ok",
              g |-> Advance(g1, duration),
              values |-> IF room = 0 THEN st.values
                         ELSE WriteSlice(st.values, st.idx, vals),
              owner |-> IF room = 0 THEN st.owner
                        ELSE MarkSlice(st.owner, st.idx, duration, <<day, step>>),
              idx |-> st.idx + duration,
              targets |-> Append(st.targets, [day |-> day, step |-> step, avg |-> avg,
                                              this_avg |-> this_avg, sigma |-> sigma])]

\* avg = avg_values[row, step]
TableAverage(p, day, step) == p.avg_values[ActiveRow(day, Len(p.avg_values)) + 1][step + 1]

Block(p, dc, day, step, st) ==
    Only({BlockSamples(p, dc, day, step, st, TableAverage(p, day, step), this_avg) :
              this_avg \in {JitteredMean(st.g, TableAverage(p, day, step), p.sigma_week)}})

\* for step in range(len(durations_comp)): ...
RECURSIVE StepLoop(_, _, _, _, _)
StepLoop(p, dc, day, step, st) ==
    IF step >= Len(dc) \/ st.status /= "ok" THEN st
    ELSE StepLoop(p, dc, day, step + 1, Block(p, dc, day, step, st))

\* for day in range(num_days): ...
RECURSIVE MainLoop(_, _, _, _)
MainLoop(p, dc, day, st) ==
    IF day >= p.num_days \/ st.status /= "ok" THEN st
    ELSE MainLoop(p, dc, day + 1, StepLoop(p, dc, day, 0, st))

Failed(g, err) == [status |-> err, values |-> <<>>, g |-> g, spiked |-> {}]

\* the check of the sum left out
Validate_NoSum(p) == Len(p.durations) = Len(p.avg_values[1])

\* assert sum(durations) == 24; assert len(durations) == avg_values.shape[1]
Validate(p) ==
    /\ SumSeq(p.durations) = 24
    /\ Len(p.durations) = Len(p.avg_values[1])

\* generate_values from the spike pass on, m being what the main loop left
CoreSpikes(p, m) ==
    IF m.status /= "ok" THEN Failed(m.g, m.status)
    ELSE Only({[status |-> "ok", values |-> s.values, g |-> s.g, base |-> m.values,
                owner |-> m.owner, targets |-> m.targets, spiked |-> s.spiked,
                gbase |-> m.g] :
                   s \in {SpikeInjection(p, m.g, m.values)}})

\* generate_values from values = np.zeros(actual_samples) on: the main loop and
\* the spike pass, dc being durations_comp and n actual_samples.  np.zeros
\* raises ValueError for a negative length, before anything is drawn.
Generation(p, g0, dc, n) ==
    IF n < 0 THEN Failed(g0, "ValueError")
    ELSE Only({CoreSpikes(p, m) :
                   m \in {MainLoop(p, dc, 0,
                                   [status |-> "ok", g |-> g0,
                                    values |-> Array([i \in 1..n |-> Zero]),
                                    owner |-> Array([i \in 1..n |-> <<>>]), idx |-> 0,
                                    targets |-> <<>>])}})

\* the time compaction, computed once, and what follows it
Compaction(p, g0) ==
    CHOOSE out \in {Generation(p, g0, dc, n) :
                        dc \in {DurationsComp(p.durations, p.day_length_hours)},
                        n \in {ActualSamples(p)}} : TRUE

\* the checks made before the seed is set: a rejected call returns with the
\* random source as it was entered
generate_values_ValidateFirst(p, r) ==
    LET s == SeedIfGiven(Enter(r), p.seed)
    IN  IF ~Validate(p) THEN Failed(Enter(r), "AssertionError")
        ELSE IF s.status /= "ok" THEN Failed(s.g, s.status)
        ELSE IF p.day_length_hours.n = 0 THEN Failed(s.g, "ZeroDivisionError")
        ELSE Compaction(p, s.g)

\* generate_values(**p), entered with the random source in state r
generate_values(p, r) ==
    LET s == SeedIfGiven(Enter(r), p.seed)
    IN  IF s.status /= "ok" THEN Failed(s.g, s.status)
        ELSE IF ~Validate(p) THEN Failed(s.g, "AssertionError")
        ELSE IF p.day_length_hours.n = 0 THEN Failed(s.g, "ZeroDivisionError")
        ELSE Compaction(p, s.g)

(***************************************************************************)
(* phases.py: Phase, build_phase_values                                    *)
(***************************************************************************)
\* Phase(kind, duration_min, target, start=None, sigma=3.0)
Phase(kind, duration_min, target, start, sigma) ==
    [kind |-> kind, duration_min |-> duration_min, target |-> target,
     start |-> start, sigma |-> sigma]

PhaseRequired == {"phases"}

PhaseDefaults ==
    [spike_prob |-> 0, spike_mult |-> 10, load_threshold |-> 200, min_value |-> 1,
     seed |-> None]

\* np.linspace(start, target, n, endpoint=False): n points spaced
\* (target - start) / n apart, the end point left out
Linspace_NoEndpoint(start, target, n) ==
    Array([i \in 1..n |->
              FAdd(FMulInt(i - 1, FDiv(FSub(FromInt(target), FromInt(start)), FromInt(n))),
                   FromInt(start))])

\* np.linspace(start, target, n), in doubles:
\*     step = (target - start) / (n - 1); y = arange(0, n) * step + start
\*     if n > 1: y[-1] = target
\* One point is start alone.
Linspace(start, target, n) ==
    Array([i \in 1..n |->
              IF n = 1 THEN FromInt(start)
              ELSE IF i = n THEN FromInt(target)
              ELSE FAdd(FMulInt(i - 1, FDiv(FSub(FromInt(target), FromInt(start)),
                                            FromInt(n - 1))),
                        FromInt(start))])

\* an unset start taken as the phase's own target, so that the ramp is level
RampStart_FromTarget(phase) == IF phase.start /= None THEN phase.start[1] ELSE phase.target

\* start = phase.start if phase.start is not None else 0
RampStart(phase) == IF phase.start /= None THEN phase.start[1] ELSE 0

\* a flat phase drawn with the default sigma of Phase, whatever the phase's own
PhaseVals_DefaultSigma(phase, g) ==
    IF phase.kind = "flat"
    THEN Normal(g, FromInt(phase.target), FromInt(3), phase.duration_min)
    ELSE Only({Array([i \in 1..phase.duration_min |-> FAdd(base[i], noise[i])]) :
                   base \in {Linspace(RampStart(phase), phase.target, phase.duration_min)},
                   noise \in {Normal(g, Zero, FromInt(phase.sigma), phase.duration_min)}})

\* the samples of one phase, drawn with the source at g:
\*     flat: np.random.normal(phase.target, phase.sigma, phase.duration_min)
\*     ramp: np.linspace(start, phase.target, phase.duration_min)
\*               + np.random.normal(0, phase.sigma, phase.duration_min)
PhaseVals(phase, g) ==
    IF phase.kind = "flat"
    THEN Normal(g, FromInt(phase.target), FromInt(phase.sigma), phase.duration_min)
    ELSE Only({Array([i \in 1..phase.duration_min |-> FAdd(base[i], noise[i])]) :
                   base \in {Linspace(RampStart(phase), phase.target, phase.duration_min)},
                   noise \in {Normal(g, Zero, FromInt(phase.sigma), phase.duration_min)}})

\* for phase in phases: ...; segments.append(vals)
\* A phase whose kind is neither "flat" nor "ramp" assigns nothing to vals: the
\* append then reuses the previous phase's vals, or fails when there is none.
\* numpy makes no series of negative length and draws nothing from a normal
\* law of negative scale.
RECURSIVE PhaseLoop(_, _, _)
PhaseLoop(phases, k, st) ==
    IF k > Len(phases) \/ st.status /= "ok" THEN st
    ELSE IF phases[k].kind \in {"flat", "ramp"}
            /\ (phases[k].sigma < 0 \/ phases[k].duration_min < 0)
    THEN [st EXCEPT !.status = "ValueError"]
    ELSE IF phases[k].kind \in {"flat", "ramp"}
    THEN Only({PhaseLoop(phases, k + 1,
                         [status |-> "ok", g |-> Advance(st.g, phases[k].duration_min),
                          segments |-> Append(st.segments, vals), vals |-> vals,
                          bound |-> TRUE]) :
                   vals \in {PhaseVals(phases[k], st.g)}})
    ELSE IF st.bound
    THEN PhaseLoop(phases, k + 1, [st EXCEPT !.segments = Append(@, st.vals)])
    ELSE [st EXCEPT !.status = "UnboundLocalError"]

\* np.concatenate(segments): fails on an empty list of segments
RECURSIVE Concatenate(_)
Concatenate(segments) ==
    IF segments = <<>> THEN <<>> ELSE Head(segments) \o Concatenate(Tail(segments))

\* build_phase_values from the spike pass on: m is what the loop over the
\* phases left and base the series after the first clamp
PhaseSpikes(p, m, base) ==
    Only({[status |-> "ok", values |-> s.values, g |-> s.g, base |-> base,
           segments |-> m.segments, spiked |-> s.spiked, gbase |-> m.g] :
              s \in {SpikeInjection(p, m.g, base)}})

\* values = np.clip(np.concatenate(segments), min_value, None), and what
\* follows it
Concatenation(p, m) ==
    IF m.status /= "ok" THEN Failed(m.g, m.status)
    ELSE IF m.segments = <<>> THEN Failed(m.g, "ValueError")
    ELSE Only({PhaseSpikes(p, m, base) :
                   base \in {Clip(Concatenate(m.segments), p.min_value)}})

\* build_phase_values(**p), entered with the random source in state r
build_phase_values(p, r) ==
    LET s == SeedIfGiven(Enter(r), p.seed)
    IN  IF s.status /= "ok" THEN Failed(s.g, s.status)
        ELSE Only({Concatenation(p, m) :
                       m \in {PhaseLoop(p.phases, 1,
                                         [status |-> "ok", g |-> s.g,
                                          segments |-> <<>>, vals |-> <<>>,
                                          bound |-> FALSE])}})

(***************************************************************************)
(* output.py: the serializer.  Text is a sequence of one-character         *)
(* strings; NL is the newline character.                                   *)
(***************************************************************************)
NL == "\n"
SP == " "
Digits == <<"0", "1", "2", "3", "4", "5", "6", "7", "8", "9">>

\* round(v) in place of int(v): the nearest whole number, the even one of two
IntOf_Round(v) ==
    LET t == FTrunc(v)
        d == FSub(v, FromInt(t))
        a == FAbs(d)
    IN  IF FLess(Ratio(1, 2), a) \/ (a = Ratio(1, 2) /\ t % 2 = 1) THEN t + d.s ELSE t

\* int(v): truncation toward zero
IntOf(v) == FTrunc(v)

\* [{"n_users": int(v), "spawn_rate": spawn_rate, "duration": 1} for v in values]
to_scenario_json(values, spawn_rate) ==
    [i \in 1..Len(values) |->
        [n_users |-> IntOf(values[i]), spawn_rate |-> spawn_rate, duration |-> 1]]

\* the decimal digits of a natural number
RECURSIVE NatText(_)
NatText(n) ==
    IF n < 10 THEN <<Digits[n + 1]>> ELSE Append(NatText(n \div 10), Digits[(n % 10) + 1])

\* the JSON text of an integer
IntText(n) == IF n < 0 THEN <<"-">> \o NatText(-n) ELSE NatText(n)

KeyNUsers == <<"n", "_", "u", "s", "e", "r", "s">>
KeySpawnRate == <<"s", "p", "a", "w", "n", "_", "r", "a", "t", "e">>
KeyDuration == <<"d", "u", "r", "a", "t", "i", "o", "n">>

\* one "key": value line of an object, indented by four spaces
MemberLine(key, n, more) ==
    <<SP, SP, SP, SP, "\"">> \o key \o <<"\"", ":", SP>> \o IntText(n)
        \o (IF more THEN <<",">> ELSE <<>>)

\* the lines of one entry of the list, keys in insertion order
EntryLines(e, more) ==
    << <<SP, SP, "{">>,
       MemberLine(KeyNUsers, e.n_users, TRUE),
       MemberLine(KeySpawnRate, e.spawn_rate, TRUE),
       MemberLine(KeyDuration, e.duration, FALSE),
       (IF more THEN <<SP, SP, "}", ",">> ELSE <<SP, SP, "}">>) >>

RECURSIVE EntriesLines(_, _)
EntriesLines(entries, i) ==
    IF i > Len(entries) THEN <<>>
    ELSE EntryLines(entries[i], i < Len(entries)) \o EntriesLines(entries, i + 1)

\* the lines of json.dumps(scenario_json, indent=2)
JsonLines(entries) ==
    IF entries = <<>> THEN << <<"[", "]">> >>
    ELSE << <<"[">> >> \o EntriesLines(entries, 1) \o << <<"]">> >>

\* lines[lo] to lines[hi] with a newline between each two
RECURSIVE JoinRange(_, _, _)
JoinRange(lines, lo, hi) ==
    IF lo > hi THEN <<>>
    ELSE IF lo = hi THEN lines[lo]
    ELSE LET mid == (lo + hi) \div 2
         IN  JoinRange(lines, lo, mid) \o <<NL>> \o JoinRange(lines, mid + 1, hi)

\* "\n".join(lines)
JoinLines(lines) == JoinRange(lines, 1, Len(lines))

\* s.split("\n"): the stretches of text between the newlines, one more than
\* there are newlines
SplitLines(text) ==
    LET IsNL(i) == text[i] = NL
        nl == SelectSeq([i \in 1..Len(text) |-> i], IsNL)
    IN  [k \in 1..(Len(nl) + 1) |->
            SubSeq(text,
                   IF k = 1 THEN 1 ELSE nl[k - 1] + 1,
                   IF k > Len(nl) THEN Len(text) ELSE nl[k] - 1)]

\* json.dumps(scenario_json, indent=2)
JsonDumps(entries) == JoinLines(JsonLines(entries))

\* "    " + line
IndentLine(line) == <<SP, SP, SP, SP>> \o line

\* the four spaces put before the text, not before each of its lines
Indented_FirstLineOnly(json_str) == IndentLine(json_str)

\* "\n".join("    " + line for line in json_str.split("\n"))
Indented(json_str) ==
    LET lines == SplitLines(json_str)
    IN  JoinLines([i \in 1..Len(lines) |-> IndentLine(lines[i])])

HdrApiVersion == <<"a", "p", "i", "V", "e", "r", "s", "i", "o", "n", ":", " ", "v", "1">>
HdrKind == <<"k", "i", "n", "d", ":", " ", "C", "o", "n", "f", "i", "g", "M", "a", "p">>
HdrMetadata == <<"m", "e", "t", "a", "d", "a", "t", "a", ":">>
HdrName == <<" ", " ", "n", "a", "m", "e", ":", " ">>
HdrNamespace == <<" ", " ", "n", "a", "m", "e", "s", "p", "a", "c", "e", ":", " ">>
HdrData == <<"d", "a", "t", "a", ":">>
HdrScenario == <<" ", " ", "s", "c", "e", "n", "a", "r", "i", "o", ".", "j", "s", "o", "n", ":", " ", "|">>

DefaultConfigmapName == <<"t", "e", "s", "t", "-", "s", "c", "e", "n", "a", "r", "i", "o">>
DefaultNamespace == <<"m", "i", "c", "r", "o", "s", "e", "r", "v", "i", "c", "e", "s", "-", "d", "e", "m", "o">>

\* to_configmap_yaml(scenario_json, name, namespace)
to_configmap_yaml(scenario_json, name, namespace) ==
    HdrApiVersion \o <<NL>> \o HdrKind \o <<NL>> \o HdrMetadata \o <<NL>>
        \o HdrName \o name \o <<NL>>
        \o HdrNamespace \o namespace \o <<NL>>
        \o HdrData \o <<NL>>
        \o HdrScenario \o <<NL>>
        \o Indented(JsonDumps(scenario_json)) \o <<NL>>

(***************************************************************************)
(* The readers of the serialized text: a YAML loader restricted to what    *)
(* the ConfigMap uses (the literal block scalar under scenario.json) and a *)
(* JSON decoder restricted to lists of flat objects with integer members.  *)
(***************************************************************************)
RECURSIVE LeadingSpaces(_)
LeadingSpaces(line) ==
    IF line = <<>> \/ Head(line) /= SP THEN 0 ELSE 1 + LeadingSpaces(Tail(line))

IsBlank(line) == \A i \in 1..Len(line) : line[i] = SP

\* the lines of a block scalar: those after the header that are blank or
\* indented at least as far as the block
RECURSIVE BlockLines(_, _)
BlockLines(lines, indent) ==
    IF lines = <<>> THEN <<>>
    ELSE IF IsBlank(Head(lines)) \/ LeadingSpaces(Head(lines)) >= indent
         THEN <<Head(lines)>> \o BlockLines(Tail(lines), indent)
         ELSE <<>>

RECURSIVE DropTrailingBlank(_)
DropTrailingBlank(lines) ==
    IF lines /= <<>> /\ IsBlank(lines[Len(lines)])
    THEN DropTrailingBlank(SubSeq(lines, 1, Len(lines) - 1))
    ELSE lines

\* yaml.safe_load(text)["data"]["scenario.json"]: the block's lines without the
\* block's indentation, joined by newlines, with a single final newline
\* (the "|" indicator clips the trailing line breaks to one).  The block must
\* be indented deeper than its key.
YamlScenarioJson(text) ==
    LET lines == SplitLines(text)
        heads == {i \in 1..Len(lines) : lines[i] = HdrScenario}
    IN  IF Cardinality(heads) /= 1 THEN [ok |-> FALSE, text |-> <<>>]
        ELSE
        LET k == CHOOSE i \in heads : TRUE
            after == SubSeq(lines, k + 1, Len(lines))
            nonblank == {i \in 1..Len(after) : ~IsBlank(after[i])}
        IN  IF nonblank = {} THEN [ok |-> TRUE, text |-> <<>>]
            ELSE
            LET f == CHOOSE i \in nonblank : \A j \in nonblank : i <= j
                indent == LeadingSpaces(after[f])
                blk == BlockLines(after, indent)
                body == DropTrailingBlank(blk)
                content == [i \in 1..Len(body) |->
                               IF Len(body[i]) <= indent THEN <<>>
                               ELSE SubSeq(body[i], indent + 1, Len(body[i]))]
            IN  IF indent <= LeadingSpaces(HdrScenario) \/ Len(blk) /= Len(after)
                THEN [ok |-> FALSE, text |-> <<>>]
                ELSE [ok |-> TRUE, text |-> JoinLines(content) \o <<NL>>]

\* the text without the white space JSON allows between tokens
IsInk(ch) == ch \notin {SP, NL}
Compact(text) == SelectSeq(text, IsInk)

IsDigit(ch) == \E d \in 1..10 : Digits[d] = ch
DigitVal(ch) == (CHOOSE d \in 1..10 : Digits[d] = ch) - 1

At(c, i) == IF i >= 1 /\ i <= Len(c) THEN c[i] ELSE "EOF"

RECURSIVE ReadNat(_, _, _)
ReadNat(c, i, acc) ==
    IF IsDigit(At(c, i)) THEN ReadNat(c, i + 1, acc * 10 + DigitVal(c[i]))
    ELSE [val |-> acc, next |-> i]

ReadInt(c, i) ==
    IF At(c, i) = "-"
    THEN LET r == ReadNat(c, i + 1, 0)
         IN  [ok |-> IsDigit(At(c, i + 1)), val |-> -r.val, next |-> r.next]
    ELSE LET r == ReadNat(c, i, 0)
         IN  [ok |-> IsDigit(At(c, i)), val |-> r.val, next |-> r.next]

RECURSIVE ReadMembers(_, _, _)
ReadMembers(c, i, acc) ==
    IF At(c, i) /= "\"" \/ \A j \in (i + 1)..Len(c) : c[j] /= "\""
    THEN [ok |-> FALSE, obj |-> acc, next |-> i]
    ELSE LET q == CHOOSE j \in (i + 1)..Len(c) :
                      c[j] = "\"" /\ \A h \in (i + 1)..(j - 1) : c[h] /= "\""
             key == SubSeq(c, i + 1, q - 1)
             v == ReadInt(c, q + 2)
             obj == [x \in DOMAIN acc \cup {key} |-> IF x = key THEN v.val ELSE acc[x]]
         IN  IF At(c, q + 1) /= ":" \/ ~v.ok THEN [ok |-> FALSE, obj |-> acc, next |-> i]
             ELSE IF At(c, v.next) = "," THEN ReadMembers(c, v.next + 1, obj)
             ELSE [ok |-> At(c, v.next) = "}", obj |-> obj, next |-> v.next + 1]

RECURSIVE ReadObjects(_, _, _)
ReadObjects(c, i, acc) ==
    IF At(c, i) /= "{" THEN [ok |-> FALSE, list |-> acc]
    ELSE LET m == ReadMembers(c, i + 1, [x \in {} |-> 0])
         IN  IF ~m.ok THEN [ok |-> FALSE, list |-> acc]
             ELSE IF At(c, m.next) = "," THEN ReadObjects(c, m.next + 1, Append(acc, m.obj))
             ELSE [ok |-> At(c, m.next) = "]" /\ m.next = Len(c),
                   list |-> Append(acc, m.obj)]

\* json.loads(text): [ok, list], each object a function from its keys
JsonLoads(text) ==
    LET c == Compact(text)
    IN  IF c = <<"[", "]">> THEN [ok |-> TRUE, list |-> <<>>]
        ELSE IF At(c, 1) /= "[" THEN [ok |-> FALSE, list |-> <<>>]
        ELSE ReadObjects(c, 2, <<>>)

\* a ScenarioEntry as the decoder returns it
EntryObject(e) ==
    [x \in {KeyNUsers, KeySpawnRate, KeyDuration} |->
        IF x = KeyNUsers THEN e.n_users
        ELSE IF x = KeySpawnRate THEN e.spawn_rate ELSE e.duration]

(***************************************************************************)
(* presets.py: the registry                                                *)
(***************************************************************************)
WEEK_AVG_VALUES ==
    << <<40, 650, 470, 800, 360, 40>>,
       <<40, 610, 430, 750, 320, 40>>,
       <<40, 680, 500, 820, 400, 40>>,
       <<40, 650, 470, 850, 360, 40>>,
       <<40, 610, 430, 720, 320, 40>>,
       <<40, 570, 400, 680, 290, 40>>,
       <<40, 540, 360, 650, 250, 40>> >>

STANDARD_DURATIONS == <<6, 4, 2, 6, 2, 4>>

Whole(n) == [n |-> n, d |-> 1]

PRESETS ==
    [x \in {"2weeks", "7days", "hpa_stress", "thursday_3h", "1h_spike", "linear_ramp"} |->
        CASE x = "2weeks" ->
                [type |-> "core",
                 avg_values |-> << <<6, 400, 100, 380, 200, 6>>,
                                   <<6, 450, 120, 400, 180, 6>>,
                                   <<6, 380, 200, 430, 220, 6>>,
                                   <<6, 500, 150, 480, 230, 6>>,
                                   <<6, 450, 100, 300, 150, 6>>,
                                   <<6, 50, 30, 70, 9, 6>>,
                                   <<6, 10, 10, 30, 50, 6>> >>,
                 durations |-> STANDARD_DURATIONS,
                 day_length_hours |-> Whole(3),
                 num_days |-> 14,
                 spawn_rate |-> 1,
                 sigma_week |-> 10,
                 sigma_low |-> 10,
                 sigma_high |-> 10,
                 spike_prob |-> 0]
          [] x = "7days" ->
                [type |-> "core",
                 avg_values |-> WEEK_AVG_VALUES,
                 durations |-> STANDARD_DURATIONS,
                 day_length_hours |-> [n |-> 24, d |-> 7],
                 num_days |-> 7,
                 spawn_rate |-> 50]
          [] x = "hpa_stress" ->
                [type |-> "core",
                 avg_values |-> WEEK_AVG_VALUES,
                 durations |-> STANDARD_DURATIONS,
                 day_length_hours |-> [n |-> 24, d |-> 7],
                 num_days |-> 7,
                 spawn_rate |-> 50]
          [] x = "thursday_3h" ->
                [type |-> "phases",
                 phases |-> << Phase("flat", 40, 40, None, 3),
                               Phase("ramp", 5, 650, Some(40), 80),
                               Phase("flat", 27, 650, None, 80),
                               Phase("flat", 13, 470, None, 80),
                               Phase("ramp", 5, 850, Some(470), 80),
                               Phase("flat", 40, 850, None, 80),
                               Phase("ramp", 5, 360, Some(850), 80),
                               Phase("flat", 13, 360, None, 80),
                               Phase("ramp", 5, 40, Some(360), 3),
                               Phase("flat", 27, 40, None, 3) >>,
                 spawn_rate |-> 50,
                 spike_prob |-> 3,
                 spike_mult |-> 14]
          [] x = "1h_spike" ->
                [type |-> "phases",
                 phases |-> << Phase("flat", 15, 50, None, 3),
                               Phase("ramp", 5, 850, Some(50), 80),
                               Phase("flat", 20, 850, None, 80),
                               Phase("ramp", 5, 50, Some(850), 80),
                               Phase("flat", 15, 50, None, 3) >>,
                 spawn_rate |-> 50,
                 spike_prob |-> 3,
                 spike_mult |-> 14]
          [] x = "linear_ramp" ->
                [type |-> "phases",
                 phases |-> << Phase("ramp", 60, 1500, Some(10), 0) >>,
                 spawn_rate |-> 50]]

(***************************************************************************)
(* The registry the sequences of invocations run on: PRESETS with the time *)
(* axis shortened (a day of ShortDayNum/ShortDayDen hours, at most MaxDays *)
(* days, phase durations divided by PhaseDiv), so that a series has a      *)
(* handful of samples.  PRESETS is a module-level dict that the package    *)
(* exports: a client can put an entry of its own into it, and CustomPreset *)
(* is such an entry, tagged with a kind the facade does not dispatch.      *)
(***************************************************************************)
ShortDayDen == 8
MaxDays == 1
PhaseDiv == 40

ShortPhase(ph) == [ph EXCEPT !.duration_min = (@ + PhaseDiv - 1) \div PhaseDiv]

Shorten(preset) ==
    IF preset.type = "core"
    THEN [preset EXCEPT !.day_length_hours = [n |-> 1, d |-> ShortDayDen],
                        !.num_days = Min2(@, MaxDays)]
    ELSE [preset EXCEPT !.phases = [k \in 1..Len(@) |-> ShortPhase(@[k])]]

CustomPreset ==
    [type |-> "replay", spawn_rate |-> 50,
     phases |-> << Phase("flat", 2, 50, None, 3) >>]

\* the six entries presets.py defines
InitialRegistry == [x \in DOMAIN PRESETS |-> Shorten(PRESETS[x])]

\* PRESETS[name] = entry
SetEntry(reg, name, entry) ==
    [x \in DOMAIN reg \cup {name} |-> IF x = name THEN entry ELSE reg[x]]

(***************************************************************************)
(* __init__.py: generate, run_preset                                       *)
(***************************************************************************)
\* func(**params): the parameters the call binds, or a TypeError
Bindable(params, required, defaults) ==
    /\ required \subseteq DOMAIN params
    /\ DOMAIN params \subseteq required \cup DOMAIN defaults

WithDefaults(params, defaults) ==
    [k \in DOMAIN params \cup DOMAIN defaults |->
        IF k \in DOMAIN params THEN params[k] ELSE defaults[k]]

\* the seed not handed on to the generator
StripPreset_NoSeed(reg, preset_name, seed) ==
    [copy |-> [k \in DOMAIN reg[preset_name] \ {"type", "spawn_rate"} |->
                  reg[preset_name][k]],
     registry |-> reg]

\* the fields popped from the registry's own entry: preset = PRESETS[preset_name]
\* without dict(...)
StripPreset_InPlace(reg, preset_name, seed) ==
    LET stripped == [k \in (DOMAIN reg[preset_name] \ {"type", "spawn_rate"}) \cup {"seed"} |->
                        IF k = "seed" THEN seed ELSE reg[preset_name][k]]
    IN  [copy |-> stripped,
         registry |-> [x \in DOMAIN reg |-> IF x = preset_name THEN stripped ELSE reg[x]]]

\* preset = dict(PRESETS[preset_name]); preset.pop("type");
\* preset.pop("spawn_rate", None); preset["seed"] = seed
\* The pops act on the copy: the registry keeps the entry as it was.
StripPreset(reg, preset_name, seed) ==
    [copy |-> [k \in (DOMAIN reg[preset_name] \ {"type", "spawn_rate"}) \cup {"seed"} |->
                  IF k = "seed" THEN seed ELSE reg[preset_name][k]],
     registry |-> reg]

Raised(err, r, reg) ==
    [status |-> err, values |-> <<>>, g |-> Enter(r), registry |-> reg, via |-> "none",
     spiked |-> {}]

\* the last branch taken for every kind that is not "core": else in place of
\* elif ptype == "phases"
Dispatch_ElsePhases(ptype, params, r, reg) ==
    IF ptype = "core"
    THEN IF ~Bindable(params, CoreRequired, CoreDefaults) THEN Raised("TypeError", r, reg)
         ELSE Only({[status |-> o.status, values |-> o.values, g |-> o.g,
                     registry |-> reg, via |-> "generate_values", spiked |-> o.spiked] :
                        o \in {generate_values(WithDefaults(params, CoreDefaults), r)}})
    ELSE IF ~Bindable(params, PhaseRequired, PhaseDefaults) THEN Raised("TypeError", r, reg)
         ELSE Only({[status |-> o.status, values |-> o.values, g |-> o.g,
                     registry |-> reg, via |-> "build_phase_values", spiked |-> o.spiked] :
                        o \in {build_phase_values(WithDefaults(params, PhaseDefaults), r)}})

\* if ptype == "core": ... elif ptype == "phases": ... else: raise ValueError
Dispatch(ptype, params, r, reg) ==
    IF ptype = "core"
    THEN IF ~Bindable(params, CoreRequired, CoreDefaults) THEN Raised("TypeError", r, reg)
         ELSE Only({[status |-> o.status, values |-> o.values, g |-> o.g,
                     registry |-> reg, via |-> "generate_values", spiked |-> o.spiked] :
                        o \in {generate_values(WithDefaults(params, CoreDefaults), r)}})
    ELSE IF ptype = "phases"
    THEN IF ~Bindable(params, PhaseRequired, PhaseDefaults) THEN Raised("TypeError", r, reg)
         ELSE Only({[status |-> o.status, values |-> o.values, g |-> o.g,
                     registry |-> reg, via |-> "build_phase_values", spiked |-> o.spiked] :
                        o \in {build_phase_values(WithDefaults(params, PhaseDefaults), r)}})
    ELSE Raised("ValueError", r, reg)

\* generate(preset_name, seed) on registry reg, the random source in state r
generate(preset_name, seed, reg, r) ==
    IF preset_name \notin DOMAIN reg THEN Raised("KeyError", r, reg)
    ELSE IF "type" \notin DOMAIN reg[preset_name] THEN Raised("KeyError", r, reg)
    ELSE LET s == StripPreset(reg, preset_name, seed)
         IN  Dispatch(reg[preset_name].type, s.copy, r, s.registry)

\* A path is the sequence of its components, a component being
\* <<prefix, name, extension>>; the name of a directory has neither prefix nor
\* extension.
Dir(name) == <<"", name, "">>

\* os.path.join(output_dir, f"{prefix}{name}.{ext}")
Path(output_dir, prefix, name, ext) == Append(output_dir, <<prefix, name, ext>>)

EmptyFiles == [x \in {} |-> <<>>]

\* the directories a path lies in
Ancestors(path) == {SubSeq(path, 1, k) : k \in 1..(Len(path) - 1)}

\* what a call on the file system leaves: it returned, or it raised err
Done(f) == [status |-> "ok", fs |-> f]

Refused(err, f) == [status |-> err, fs |-> f]

\* os.makedirs(output_dir, exist_ok=True): nothing to do if the directory is
\* there; FileExistsError if a file has its path, NotADirectoryError if a file
\* stands on the way to it; otherwise it and the missing directories on the way
\* are made
MakeDirs(f, output_dir) ==
    IF output_dir \in f.dirs THEN Done(f)
    ELSE IF output_dir \in DOMAIN f.files THEN Refused("FileExistsError", f)
    ELSE IF Ancestors(output_dir) \cap DOMAIN f.files /= {}
    THEN Refused("NotADirectoryError", f)
    ELSE Done([f EXCEPT !.dirs = @ \cup Ancestors(output_dir) \cup {output_dir}])

\* with open(path, "w") as f: f.write(text), and plt.savefig(path), which opens
\* the file the same way: IsADirectoryError if path is a directory,
\* NotADirectoryError or FileNotFoundError if it does not lie in one; otherwise
\* the file is created or replaced
WriteFile(f, path, text) ==
    IF path \in f.dirs THEN Refused("IsADirectoryError", f)
    ELSE IF Ancestors(path) \cap DOMAIN f.files /= {} THEN Refused("NotADirectoryError", f)
    ELSE IF Ancestors(path) \ f.dirs /= {} THEN Refused("FileNotFoundError", f)
    ELSE Done([f EXCEPT !.files =
                   [x \in DOMAIN @ \cup {path} |-> IF x = path THEN text ELSE @[x]]])

PlotBytes == <<"P", "N", "G">>

\* plt.savefig(os.path.join(output_dir, f"workload_timeseries_{name}.png")),
\* after the first image
SaveTimeseries(sorted, output_dir, name) ==
    IF sorted.status /= "ok" THEN sorted
    ELSE WriteFile(sorted.fs, Path(output_dir, "workload_timeseries_", name, "png"),
                   PlotBytes)

\* plt.savefig(os.path.join(output_dir, f"workload_sorted_{name}.png")), after
\* os.makedirs
SaveSorted(made, output_dir, name) ==
    IF made.status /= "ok" THEN made
    ELSE WriteFile(made.fs, Path(output_dir, "workload_sorted_", name, "png"), PlotBytes)

\* save_plots(values, output_dir, name): the directory, then the two images;
\* the first statement that raises ends it
save_plots(f, values, output_dir, name) ==
    Only({SaveTimeseries(sorted, output_dir, name) :
              sorted \in {SaveSorted(made, output_dir, name) :
                              made \in {MakeDirs(f, output_dir)}}})

RunFailed(err, g, reg, f, steps) ==
    [status |-> err, g |-> g, registry |-> reg, fs |-> f, steps |-> steps,
     values |-> <<>>, scenario_json |-> <<>>]

\* the output directory created before the preset is looked up
LookupFailure_AfterMakedirs(output_dir, reg, r, f) ==
    RunFailed("KeyError", Enter(r), reg, MakeDirs(f, output_dir).fs, <<>>)

\* preset = PRESETS[preset_name] with no such key: the KeyError leaves run_preset
\* at its first statement
LookupFailure(output_dir, reg, r, f) == RunFailed("KeyError", Enter(r), reg, f, <<>>)

\* save_plots(values, output_dir, preset_name), after the write of {preset}.yaml
RunPlots(a, gen, scenario_json, yaml, steps) ==
    IF yaml.status /= "ok"
    THEN RunFailed(yaml.status, gen.g, gen.registry, yaml.fs, steps)
    ELSE Only({IF plots.status /= "ok"
               THEN RunFailed(plots.status, gen.g, gen.registry, plots.fs,
                              Append(steps, "save_plots"))
               ELSE [status |-> "ok", g |-> gen.g, registry |-> gen.registry,
                     fs |-> plots.fs, steps |-> Append(steps, "save_plots"),
                     values |-> gen.values, scenario_json |-> scenario_json] :
                   plots \in {save_plots(yaml.fs, gen.values, a.output_dir, a.preset_name)}})

\* with open(yaml_path, "w") as f: f.write(to_configmap_yaml(...)), after the
\* write of {preset}.json
RunYaml(a, gen, scenario_json, json, steps) ==
    IF json.status /= "ok"
    THEN RunFailed(json.status, gen.g, gen.registry, json.fs, steps)
    ELSE Only({RunPlots(a, gen, scenario_json, yaml,
                        Append(steps, "write_yaml")) :
                   yaml \in {WriteFile(json.fs, Path(a.output_dir, "", a.preset_name, "yaml"),
                                       to_configmap_yaml(scenario_json, a.configmap_name,
                                                         a.namespace))}})

\* the write of {preset}.json, after os.makedirs
RunJson(a, gen, scenario_json, made, steps) ==
    IF made.status /= "ok"
    THEN RunFailed(made.status, gen.g, gen.registry, made.fs, steps)
    ELSE Only({RunYaml(a, gen, scenario_json, json, Append(steps, "write_json")) :
                   json \in {WriteFile(made.fs, Path(a.output_dir, "", a.preset_name, "json"),
                                       JsonDumps(scenario_json))}})

\* os.makedirs(output_dir) moved up, before values = generate(...)
run_preset_DirFirst(preset_name, output_dir, seed, configmap_name, namespace, reg, r, f) ==
    IF preset_name \notin DOMAIN reg THEN LookupFailure(output_dir, reg, r, f)
    ELSE IF "spawn_rate" \notin DOMAIN reg[preset_name]
    THEN RunFailed("KeyError", Enter(r), reg, f, <<>>)
    ELSE
    LET spawn_rate == reg[preset_name].spawn_rate
        a == [preset_name |-> preset_name, output_dir |-> output_dir,
              configmap_name |-> configmap_name, namespace |-> namespace]
        Generated(gen, made) ==
            IF gen.status /= "ok"
            THEN RunFailed(gen.status, gen.g, gen.registry, made.fs, <<"makedirs", "generate">>)
            ELSE Only({RunJson(a, gen, scenario_json, made,
                               <<"makedirs", "generate", "to_scenario_json">>) :
                           scenario_json \in {to_scenario_json(gen.values, spawn_rate)}})
    IN  Only({IF made.status /= "ok"
              THEN RunFailed(made.status, Enter(r), reg, made.fs, <<"makedirs">>)
              ELSE Only({Generated(gen, made) :
                             gen \in {generate(preset_name, seed, reg, r)}}) :
                  made \in {MakeDirs(f, output_dir)}})

\* run_preset(preset_name, output_dir, seed, configmap_name, namespace): each
\* statement is reached when the one before it has returned, and the first
\* that raises ends the run with what the statements before it have done
run_preset(preset_name, output_dir, seed, configmap_name, namespace, reg, r, f) ==
    IF preset_name \notin DOMAIN reg THEN LookupFailure(output_dir, reg, r, f)
    ELSE IF "spawn_rate" \notin DOMAIN reg[preset_name]
    THEN RunFailed("KeyError", Enter(r), reg, f, <<>>)
    ELSE
    LET spawn_rate == reg[preset_name].spawn_rate
        a == [preset_name |-> preset_name, output_dir |-> output_dir,
              configmap_name |-> configmap_name, namespace |-> namespace]
        \* the statements after scenario_json = to_scenario_json(values, spawn_rate)
        Written(gen, scenario_json) ==
            Only({RunJson(a, gen, scenario_json, made,
                          <<"generate", "to_scenario_json", "makedirs">>) :
                      made \in {MakeDirs(f, output_dir)}})
        \* the statements after values = generate(preset_name, seed=seed)
        Generated(gen) ==
            IF gen.status /= "ok"
            THEN RunFailed(gen.status, gen.g, gen.registry, f, <<"generate">>)
            ELSE Only({Written(gen, scenario_json) :
                           scenario_json \in {to_scenario_json(gen.values, spawn_rate)}})
    IN  Only({Generated(gen) : gen \in {generate(preset_name, seed, reg, r)}})

(***************************************************************************)
(* applications/petclinic/locust/locustfile.py: PetClinicUser, the load    *)
(* users.  owner_ids, pet_ids and vet_ids are attributes of the class,     *)
(* each an empty list.  self.owner_ids = [...] and self.vet_ids = [...]    *)
(* give the user a list of its own; pet_ids is never assigned, only        *)
(* extended and shortened in place, so that every user reads and writes    *)
(* the one list of the class.  The users are greenlets: a user runs until  *)
(* it waits for the response to a request, and other users run while it    *)
(* waits.  A method is therefore given in pieces, one from each wait to    *)
(* the next, on a frame st: the user's owner_ids and vet_ids, the class's  *)
(* pet_ids, the request the user waits for (at) and the id it picked.  A   *)
(* response is [status, data]: data is None when response.json() raises,   *)
(* else the decoded body.  A dict without the key "id" has id None.        *)
(***************************************************************************)
Users == {1, 2}

\* the class attributes owner_ids = [] and vet_ids = [], as a user that was
\* just spawned reads them
NewUser == [owner_ids |-> <<>>, vet_ids |-> <<>>, at |-> "spawned", id |-> 0]

Keyed(id) == [id |-> id]
Owner(id, pets) == [id |-> id, pets |-> pets]
Response(status, data) == [status |-> status, data |-> data]

\* what a run of schedule_visit did: the user, the pet id it picked (0 when it
\* sent no request for a visit), the status it received (0 likewise), pet_ids
\* as the response found it and as the task left it
TaskRec(u, op, id, status, cached, left) ==
    [user |-> u, op |-> op, id |-> id, status |-> status, cached |-> cached, left |-> left]

\* of the other tasks only the name is kept
TaskName(op) == TaskRec(0, op, 0, 0, <<>>, <<>>)

NoTask == TaskName("none")

HasId(x) == x.id /= None

\* [x["id"] for x in items if "id" in x]
IdsOf(items) ==
    LET has == SelectSeq(items, HasId)
    IN  [i \in 1..Len(has) |-> has[i].id[1]]

\* for owner in data:
\*     if "pets" in owner and owner["pets"]:
\*         self.pet_ids.extend([pet["id"] for pet in owner["pets"] if "id" in pet])
RECURSIVE ExtendPets(_, _)
ExtendPets(list, data) ==
    IF data = <<>> THEN list
    ELSE ExtendPets(list \o IdsOf(Head(data).pets), Tail(data))

\* x in list
Contains(list, x) == \E i \in 1..Len(list) : list[i] = x

\* list.remove(x) on a list that holds x: the first x is taken out
ListRemove(list, x) ==
    LET i == CHOOSE k \in 1..Len(list) :
                 list[k] = x /\ \A j \in 1..(k - 1) : list[j] /= x
    IN  SubSeq(list, 1, i - 1) \o SubSeq(list, i + 1, Len(list))

\* fetch_owners(self), from the response to GET /api/customer/owners on
fetch_owners(st, response) ==
    IF response.status = 200 /\ response.data /= None /\ response.data[1] /= <<>>
    THEN [st EXCEPT !.owner_ids = IdsOf(response.data[1]),
                    !.pet_ids = ExtendPets(@, response.data[1])]
    ELSE st

\* fetch_vets(self), from the response to GET /api/vet/vets on
fetch_vets(st, response) ==
    IF response.status = 200 /\ response.data /= None /\ response.data[1] /= <<>>
    THEN [st EXCEPT !.vet_ids = IdsOf(response.data[1])]
    ELSE st

\* on_start(self), up to the request of self.fetch_owners()
on_start(st) == [st EXCEPT !.at = "on_start/owners"]

\* on_start(self), from the owners response to the request of self.fetch_vets()
on_start_owners(st, response) == [fetch_owners(st, response) EXCEPT !.at = "on_start/vets"]

\* on_start(self), from the vets response on
on_start_vets(st, response) == [fetch_vets(st, response) EXCEPT !.at = "idle"]

\* browse_owners(self), up to its request
browse_owners(st) == [st EXCEPT !.at = "browse_owners"]

\* browse_owners(self), from the response to GET /api/customer/owners on
browse_owners_response(st, response) ==
    IF response.status = 200 /\ response.data /= None /\ response.data[1] /= <<>>
    THEN [st EXCEPT !.owner_ids = IdsOf(response.data[1]),
                    !.pet_ids = ExtendPets(@, response.data[1]),
                    !.at = "idle"]
    ELSE [st EXCEPT !.at = "idle"]

\* owner_id = random.choice(self.owner_ids) and the request for the owner; pick
\* is the position random.choice takes
GetOwner(st, pick) ==
    [st EXCEPT !.id = st.owner_ids[pick], !.at = "view_owner_details/owner"]

\* view_owner_details(self), up to its first request: the one of
\* self.fetch_owners() when no owner is cached, else the one for the owner
view_owner_details(st, pick) ==
    IF st.owner_ids = <<>> THEN [st EXCEPT !.id = 0, !.at = "view_owner_details/fetch"]
    ELSE GetOwner(st, pick)

\* view_owner_details(self), from the response to the request of
\* self.fetch_owners() to the return or to the request for the owner
view_owner_details_fetched(st, response, pick) ==
    LET s1 == fetch_owners(st, response)
    IN  IF s1.owner_ids = <<>> THEN [s1 EXCEPT !.at = "idle"] ELSE GetOwner(s1, pick)

\* view_owner_details(self), from the response to
\* GET /api/customer/owners/{owner_id} on
view_owner_details_response(st, response) ==
    IF response.status = 200
    THEN IF response.data /= None
         THEN [st EXCEPT !.pet_ids = @ \o IdsOf(response.data[1].pets), !.at = "idle"]
         ELSE [st EXCEPT !.at = "idle"]
    ELSE IF response.status = 404
    THEN [st EXCEPT !.owner_ids = ListRemove(@, st.id), !.at = "idle"]
    ELSE [st EXCEPT !.at = "idle"]

\* pet_id = random.choice(self.pet_ids) and the request for the visit
PostVisit(st, pick) ==
    [st EXCEPT !.id = st.pet_ids[pick], !.at = "schedule_visit/visit"]

\* schedule_visit(self), up to its first request: the one of
\* self.fetch_owners() when no pet is cached, else the one for the visit
schedule_visit(st, pick) ==
    IF st.pet_ids = <<>> THEN [st EXCEPT !.id = 0, !.at = "schedule_visit/fetch"]
    ELSE PostVisit(st, pick)

\* schedule_visit(self), from the response to the request of
\* self.fetch_owners() to the return or to the request for the visit
schedule_visit_fetched(st, response, pick) ==
    LET s1 == fetch_owners(st, response)
    IN  IF s1.pet_ids = <<>> THEN [s1 EXCEPT !.at = "idle"] ELSE PostVisit(s1, pick)

\* schedule_visit(self), from the status of the response to
\* POST /api/visit/owners/*/pets/{pet_id}/visits on
schedule_visit_response(st, status) ==
    IF status \in {200, 201} THEN [st EXCEPT !.at = "idle"]
    ELSE IF status = 404
    THEN IF Contains(st.pet_ids, st.id)
         THEN [st EXCEPT !.pet_ids = ListRemove(@, st.id), !.at = "idle"]
         ELSE [st EXCEPT !.at = "idle"]
    ELSE [st EXCEPT !.at = "idle"]

\* browse_vets(self), up to its request
browse_vets(st) == [st EXCEPT !.at = "browse_vets"]

\* browse_vets(self), from the response to GET /api/vet/vets on
browse_vets_response(st, response) ==
    IF response.status = 200 /\ response.data /= None /\ response.data[1] /= <<>>
    THEN [st EXCEPT !.vet_ids = IdsOf(response.data[1]), !.at = "idle"]
    ELSE [st EXCEPT !.at = "idle"]

(***************************************************************************)
(* The state machine.  One action per top-level operation; an action is    *)
(* the whole invocation.  last and prev record the two latest invocations: *)
(* what was called, the state of the random source, of the registry and of *)
(* the file system when it was entered, and what it returned.              *)
(***************************************************************************)
NoCall == [op |-> "none"]

Record(op, name, args, seed, out) ==
    [op |-> op, name |-> name, args |-> args, seed |-> seed,
     rng0 |-> rng, fs0 |-> fs, out |-> out]

\* prev keeps the invocation without the file system it was entered with
Older(inv) == IF inv.op = "none" THEN inv ELSE [inv EXCEPT !.fs0 = {}]

\* the invocation is recorded; the load user takes no part in it
Complete(inv) ==
    /\ last' = inv
    /\ prev' = Older(last)
    /\ ncalls' = ncalls + 1
    /\ UNCHANGED <<pet_ids, users, task>>

\* what an invocation of the facade or the orchestrator returned or raised, and
\* what it did to the random source; the registry and the file system it left
\* are the variables
Returned(out) ==
    [k \in DOMAIN out \ {"registry", "fs"} |-> out[k]]

Init ==
    /\ rng \in {[key |-> k, pos |-> 0] : k \in EntropyKeys}
    /\ registry = InitialRegistry
    /\ fs = [dirs |-> {}, files |-> EmptyFiles]
    /\ last = NoCall
    /\ prev = NoCall
    /\ ncalls = 0
    /\ pet_ids = <<>>
    /\ users = [u \in Users |-> NewUser]
    /\ task = NoTask

\* generate(name, seed=seed)
Generate(name, seed) ==
    \E out \in {generate(name, seed, registry, rng)} :
        /\ rng' = Leave(out.g)
        /\ registry' = out.registry
        /\ UNCHANGED fs
        /\ Complete(Record("generate", name, <<>>, seed, Returned(out)))

\* what an operation that returns None and takes no part in the generation
\* leaves: no series, the random source as it was entered
Untouched(r) == [status |-> "ok", values |-> <<>>, g |-> Enter(r)]

\* run_preset(name, output_dir=output_dir, seed=seed,
\*            configmap_name=configmap_name, namespace=namespace)
RunPreset(name, output_dir, seed, configmap_name, namespace) ==
    \E out \in {run_preset(name, output_dir, seed, configmap_name, namespace,
                          registry, rng, fs)} :
        /\ rng' = Leave(out.g)
        /\ registry' = out.registry
        /\ fs' = out.fs
        /\ Complete(Record("run_preset", name,
                            [output_dir |-> output_dir, configmap_name |-> configmap_name,
                             namespace |-> namespace],
                            seed, Returned(out)))

\* save_plots(values, output_dir, name), called directly
SavePlots(values, output_dir, name) ==
    \E out \in {save_plots(fs, values, output_dir, name)} :
        /\ fs' = out.fs
        /\ UNCHANGED <<rng, registry>>
        /\ Complete(Record("save_plots", name,
                            [values |-> values, output_dir |-> output_dir], None,
                            [Untouched(rng) EXCEPT !.status = out.status]))

\* PRESETS[name] = entry, done by the client between two invocations: a new
\* name is added, a registered one has its entry replaced
Register(name, entry) ==
    /\ registry' = SetEntry(registry, name, entry)
    /\ last' = Record("register", name, [entry |-> entry], None, Untouched(rng))
    /\ prev' = Older(last)
    /\ UNCHANGED <<rng, fs, ncalls, pet_ids, users, task>>

\* generate_values(**p), called directly
GenerateValues(p) ==
    \E out \in {generate_values(p, rng)} :
        /\ rng' = Leave(out.g)
        /\ UNCHANGED <<registry, fs>>
        /\ Complete(Record("generate_values", "-", p, p.seed, out))

\* build_phase_values(**p), called directly
BuildPhaseValues(p) ==
    \E out \in {build_phase_values(p, rng)} :
        /\ rng' = Leave(out.g)
        /\ UNCHANGED <<registry, fs>>
        /\ Complete(Record("build_phase_values", "-", p, p.seed, out))

(***************************************************************************)
(* Spec: sequences of invocations of the facade and of the generators on   *)
(* the shared random source.                                               *)
(***************************************************************************)
MaxCalls == 2

\* the names the client registers an entry under: a new one, and one that
\* presets.py defines
RegisteredNames == {"custom", "7days"}

\* no seed, two seeds np.random.seed takes, and one it refuses
Seeds == {None, Some(0), Some(3), Some(-1)}

\* the names presets.py defines, the name of the client's entry, and one that
\* is never registered
Names == DOMAIN PRESETS \cup {"custom", "nonexistent"}

\* generate_values configurations called directly in a sequence: a valid one,
\* one whose durations sum to 23, one of -1 days, which fails when the array is
\* allocated, and one whose steps compact to 1, 1 and -1 minutes, which fails
\* in its third block after the draws of the first two
SeqCoreArgs ==
    {[avg_values |-> << <<40, 300>> >>, durations |-> d,
      day_length_hours |-> [n |-> 1, d |-> 8], num_days |-> 1] :
        d \in {<<8, 16>>, <<8, 15>>}}
    \cup {[avg_values |-> << <<40, 300>> >>, durations |-> <<8, 16>>,
           day_length_hours |-> [n |-> 1, d |-> 8], num_days |-> -1],
          [avg_values |-> << <<150, 220, 90>> >>, durations |-> <<28, 16, -20>>,
           day_length_hours |-> [n |-> 1, d |-> 40], num_days |-> 1]}

SeqSeeds == {None, Some(3), Some(-1)}

Next ==
    /\ ncalls < MaxCalls
    /\ \/ \E name \in Names, seed \in Seeds : Generate(name, seed)
       \/ \E a \in SeqCoreArgs, seed \in SeqSeeds :
              GenerateValues(WithDefaults(a @@ [seed |-> seed], CoreDefaults))
       \/ \E name \in RegisteredNames : Register(name, CustomPreset)

Spec == Init /\ [][Next]_vars

(***************************************************************************)
(* SpecRun: sequences of runs of the orchestrator, interleaved with calls  *)
(* of the facade and of save_plots, on the shared random source and the    *)
(* file system.  The file system starts empty; a call may be given for     *)
(* directory the path of a file that a run writes, so that what one call   *)
(* leaves stands in the way of a step of the next.                         *)
(***************************************************************************)
MaxRuns == 2

\* "output", the default
OutputDir == << Dir("output") >>

OutputDirs == {OutputDir}

\* the paths of the four files a run of linear_ramp writes in "output", taken
\* as directories, and a directory under the first
ObstacleDirs ==
    {Path(OutputDir, "", "linear_ramp", "json"), Path(OutputDir, "", "linear_ramp", "yaml"),
     Path(OutputDir, "workload_sorted_", "linear_ramp", "png"),
     Path(OutputDir, "workload_timeseries_", "linear_ramp", "png")}

NestedDir == Append(Path(OutputDir, "", "linear_ramp", "json"), Dir("plots"))

\* the runs given a directory that a run in "output" fills with a file
ObstacleRuns ==
    {<<"linear_ramp", Some(3), DefaultConfigmapName, DefaultNamespace, dir>> :
        dir \in {Path(OutputDir, "", "linear_ramp", "json"), NestedDir}}

\* <<name, seed>> of the calls of generate interleaved with the runs
RunGenCalls ==
    {<<"nonexistent", None>>, <<"nonexistent", Some(3)>>, <<"custom", Some(3)>>,
     <<"linear_ramp", None>>, <<"linear_ramp", Some(-1)>>}

RunSeeds == {None, Some(3)}

ShortName == <<"s", "c">>
ShortNamespace == <<"n", "s", "1">>

\* <<name, seed, configmap_name, namespace>> of the runs: every name with the
\* default ConfigMap name and namespace, and two runs with both given
RunCalls ==
    {<<name, seed, DefaultConfigmapName, DefaultNamespace>> :
        name \in Names, seed \in RunSeeds}
    \cup {<<"linear_ramp", Some(3), ShortName, ShortNamespace>>,
          <<"nonexistent", None, ShortName, ShortNamespace>>,
          <<"linear_ramp", Some(-1), DefaultConfigmapName, DefaultNamespace>>,
          <<"7days", Some(-1), DefaultConfigmapName, DefaultNamespace>>}

\* the series plotted by a direct call of save_plots: 50 and 60.5
PlottedSeries == {<<FromInt(50), Ratio(121, 2)>>}

NextRun ==
    /\ ncalls < MaxRuns
    /\ \/ \E c \in RunCalls, dir \in OutputDirs : RunPreset(c[1], dir, c[2], c[3], c[4])
       \/ \E c \in ObstacleRuns : RunPreset(c[1], c[5], c[2], c[3], c[4])
       \/ \E c \in RunGenCalls : Generate(c[1], c[2])
       \/ \E values \in PlottedSeries, dir \in OutputDirs \cup ObstacleDirs :
              SavePlots(values, dir, "linear_ramp")
       \/ \E name \in RegisteredNames : Register(name, CustomPreset)

SpecRun == Init /\ [][NextRun]_vars

(***************************************************************************)
(* SpecGen: one direct call of a generator, its parameters drawn from      *)
(* bounded sets that cover valid and rejected configurations, both noise   *)
(* regimes, spikes on and off, and negative parameters.                    *)
(***************************************************************************)
MaxGenDays == 3
MaxDur == 3
MaxPhases == 2

GenSeeds == {None, Some(3)}

GenTables ==
    { << <<40, 300>> >>,
      << <<40, 300>>, <<250, 30>> >>,
      << <<150, 220, 90>> >> }

GenDurations == {<<12, 12>>, <<8, 16>>, <<11, 12>>, <<12, 13>>, <<8, 8, 8>>, <<24>>}

GenDayLengths == {[n |-> 1, d |-> 16], [n |-> 1, d |-> 8]}

\* <<spike_prob, spike_mult>>
GenSpikes == {<<0, 14>>, <<50, 14>>, <<50, 10>>, <<50, 5>>, <<50, -10>>}

\* every time axis, under one setting of the noise and of the spike pass
CoreAxes ==
    {[avg_values |-> t, durations |-> du, day_length_hours |-> dl, num_days |-> nd,
      sigma_week |-> 15, sigma_low |-> 3, sigma_high |-> 80, load_threshold |-> 200,
      spike_prob |-> 50, spike_mult |-> 14, min_value |-> 1, seed |-> seed] :
        t \in GenTables, du \in GenDurations, dl \in GenDayLengths, nd \in 0..MaxGenDays,
        seed \in GenSeeds}

\* every setting of the noise and of the spike pass, on days of two steps
CoreNoise ==
    {[avg_values |-> t, durations |-> <<8, 16>>, day_length_hours |-> [n |-> 1, d |-> 8],
      num_days |-> nd, sigma_week |-> sw, sigma_low |-> 3, sigma_high |-> 80,
      load_threshold |-> th, spike_prob |-> sp[1], spike_mult |-> sp[2],
      min_value |-> mv, seed |-> seed] :
        t \in {x \in GenTables : Len(x[1]) = 2}, nd \in {1, MaxGenDays}, sw \in {0, 15},
        th \in {200, -150}, sp \in GenSpikes, mv \in {1, -200}, seed \in GenSeeds}

CoreInputs == CoreAxes \cup CoreNoise

\* the time axis of the registered core presets at full length, with the spike
\* pass off: 2weeks as registered, and the week of 7days and hpa_stress
PresetTimeAxes ==
    {WithDefaults([k \in DOMAIN PRESETS[x] \ {"type", "spawn_rate"} |-> PRESETS[x][k]]
                      @@ [seed |-> Some(3)],
                  [CoreDefaults EXCEPT !.spike_prob = 0]) : x \in {"2weeks", "7days"}}

\* <<kind, target, start, sigma>> of the phases of one sample and of MaxDur
GenShapes ==
    { <<"flat", 50, None, 0>>, <<"ramp", 300, Some(10), 0>>, <<"ramp", 300, None, 80>> }

\* and of the phases of MaxDur alone
GenLongShapes ==
    { <<"flat", 300, None, 80>>, <<"flat", -20, None, 3>>, <<"ramp", 50, Some(400), 3>>,
      <<"ramp", 30, Some(-40), 0>> }

GenPhases ==
    {Phase(s[1], d, s[2], s[3], s[4]) : s \in GenShapes, d \in {1, MaxDur}}
        \cup {Phase(s[1], MaxDur, s[2], s[3], s[4]) : s \in GenLongShapes}
        \cup {Phase("flat", 0, 300, None, 80)}

RECURSIVE SeqsUpTo(_, _)
SeqsUpTo(S, n) ==
    IF n = 0 THEN {<<>>}
    ELSE LET shorter == SeqsUpTo(S, n - 1)
         IN  shorter \cup {Append(s, x) : s \in shorter, x \in S}

\* <<spike_prob, spike_mult, load_threshold, min_value>>
GenPhaseSpikes == {<<0, 10, 200, 1>>, <<50, 14, 200, 1>>, <<50, -10, -150, -200>>}

\* phase lists of full length: five minutes at 50, the phases of the
\* linear_ramp preset, two minutes at a level under the default floor, two
\* minutes at 360, whose product with 1.4 is not 504 in doubles
ConcretePhaseLists ==
    { << Phase("flat", 5, 50, None, 0) >>,
      PRESETS["linear_ramp"].phases,
      << Phase("flat", 2, 0, None, 0) >>,
      << Phase("flat", 2, 360, None, 0) >> }

\* ramps whose points are not the doubles nearest to the exact ones: point 12
\* of 23 from 0 to 400 lies over 200, point 8 of 15 from 0 to 122 under 61 and
\* from 10 to 240 under 125, and point 7 of 8 from 0 to 240 has the product 288
\* with 1.4
InexactRamps ==
    { << Phase("ramp", 23, 400, Some(0), 0) >>,
      << Phase("ramp", 15, 122, Some(0), 0) >>,
      << Phase("ramp", 15, 240, Some(10), 0) >>,
      << Phase("ramp", 8, 240, Some(0), 0) >> }

\* <<spike_prob, spike_mult, load_threshold, min_value>> of the runs on them
InexactRampSpikes == {<<0, 10, 200, 1>>, <<3, 14, 200, 1>>, <<100, 14, 200, 1>>}

PhaseInputs ==
    {[phases |-> ps, spike_prob |-> sp[1], spike_mult |-> sp[2], load_threshold |-> sp[3],
      min_value |-> sp[4], seed |-> seed] :
        ps \in SeqsUpTo(GenPhases, MaxPhases) \cup ConcretePhaseLists,
        sp \in GenPhaseSpikes, seed \in GenSeeds}
    \cup
    {[phases |-> ps, spike_prob |-> sp[1], spike_mult |-> sp[2], load_threshold |-> sp[3],
      min_value |-> sp[4], seed |-> seed] :
        ps \in InexactRamps, sp \in InexactRampSpikes, seed \in GenSeeds}

\* days of 2.9 and of 4.1 hours, in steps whose compacted minutes are whole
\* numbers in exact arithmetic and fall short of them in doubles
InexactDays ==
    {WithDefaults([avg_values |-> << <<40, 300>> >>, durations |-> c[1],
                   day_length_hours |-> c[2], num_days |-> 1, seed |-> Some(3)],
                  [CoreDefaults EXCEPT !.spike_prob = 0]) :
        c \in { << <<4, 20>>, [n |-> 29, d |-> 10] >>,
                << <<8, 16>>, [n |-> 41, d |-> 10] >> }}

\* <<avg_values, durations, day_length_hours, num_days, sigma_week>> of calls
\* that pass the two assertions with a count of days, a day length or a step
\* below 0, or a scale of the jittered mean whose sign bit is set:
\*   a negative count of days, a negative day length: np.zeros is refused;
\*   both negative: an array of zeros that no block writes;
\*   steps of 25 and -1 hours compacted to 7 and 0 minutes;
\*   steps of 28 and -4 hours compacted to 8 and -1 minutes: 8 samples for the
\*   7 elements of the array;
\*   steps of 28, 16 and -20 hours compacted to 1, 1 and -1 minutes: the second
\*   block's one sample is assigned past the end of the array of one element;
\*   scales -0.0 (0 * -20, -0.15 * 0) and a scale above 0 (-0.15 * -20)
EdgeAxes ==
    { << << <<40, 300>> >>, <<8, 16>>, [n |-> 1, d |-> 8], -1, 15 >>,
      << << <<40, 300>> >>, <<8, 16>>, [n |-> -1, d |-> 8], 1, 15 >>,
      << << <<40, 300>> >>, <<8, 16>>, [n |-> -1, d |-> 8], 0, 15 >>,
      << << <<40, 300>> >>, <<8, 16>>, [n |-> -1, d |-> 8], -1, 15 >>,
      << << <<40, 300>> >>, <<8, 16>>, [n |-> -29, d |-> 10], -1, 15 >>,
      << << <<40, 300>> >>, <<25, -1>>, [n |-> 1, d |-> 8], 2, 15 >>,
      << << <<40, 300>> >>, <<28, -4>>, [n |-> 1, d |-> 8], 1, 15 >>,
      << << <<150, 220, 90>> >>, <<28, 16, -20>>, [n |-> 1, d |-> 40], 1, 15 >>,
      << << <<150, 220, 90>> >>, <<28, 16, -20>>, [n |-> 1, d |-> 40], 2, 15 >>,
      << << <<-20, 300>> >>, <<8, 16>>, [n |-> 1, d |-> 8], 1, 0 >>,
      << << <<40, 0>> >>, <<8, 16>>, [n |-> 1, d |-> 8], 1, -15 >>,
      << << <<-20, -300>> >>, <<8, 16>>, [n |-> 1, d |-> 8], 1, -15 >> }

\* <<spike_prob, load_threshold, min_value>> of the calls on them
EdgeSpikes == {<<0, 200, 1>>, <<50, 200, 1>>, <<50, -150, -200>>}

CoreEdges ==
    {[avg_values |-> a[1], durations |-> a[2], day_length_hours |-> a[3],
      num_days |-> a[4], sigma_week |-> a[5], sigma_low |-> 3, sigma_high |-> 80,
      load_threshold |-> sp[2], spike_prob |-> sp[1], spike_mult |-> 14,
      min_value |-> sp[3], seed |-> seed] :
        a \in EdgeAxes, sp \in EdgeSpikes, seed \in GenSeeds}

\* calls given a seed that np.random.seed refuses: days of two steps, with
\* durations the assertions accept and durations they reject, and the lists
\* of at most one phase
RefusedSeedCore ==
    {[p EXCEPT !.seed = Some(-1)] :
        p \in {x \in CoreInputs : /\ x.seed = None
                                 /\ x.num_days = 1
                                 /\ Len(x.avg_values[1]) = 2}}

RefusedSeedPhases ==
    {[p EXCEPT !.seed = Some(-1)] :
        p \in {x \in PhaseInputs : x.seed = None /\ Len(x.phases) <= 1}}

NextGen ==
    /\ ncalls = 0
    /\ \/ \E p \in CoreInputs \cup CoreEdges \cup PresetTimeAxes \cup InexactDays
                    \cup RefusedSeedCore :
              GenerateValues(p)
       \/ \E p \in PhaseInputs \cup RefusedSeedPhases : BuildPhaseValues(p)

SpecGen == Init /\ [][NextGen]_vars

(***************************************************************************)
(* SpecSerial: the serializer applied to a series drawn from a bounded     *)
(* set, then the ConfigMap wrapper applied to the list it returned.        *)
(***************************************************************************)
MaxSeries == 2

\* 0, 49.9, 50, -0.5, -1.5, 360 * 1.4 = 503.99999999999994, 1500
SerialValues ==
    {Zero, Ratio(499, 10), FromInt(50), Ratio(-1, 2), Ratio(-3, 2),
     FMul(FromInt(360), Ratio(14, 10)), FromInt(1500)}

SerialSpawnRates == {1, 50}

ToScenarioJson(values, spawn_rate) ==
    /\ ncalls = 0
    /\ UNCHANGED <<rng, registry, fs>>
    /\ Complete(Record("to_scenario_json", "-",
                       [values |-> values, spawn_rate |-> spawn_rate], None,
                       to_scenario_json(values, spawn_rate)))

ToConfigmapYaml(name, namespace) ==
    /\ last.op = "to_scenario_json"
    /\ UNCHANGED <<rng, registry, fs>>
    /\ Complete(Record("to_configmap_yaml", "-",
                       [scenario_json |-> last.out, name |-> name, namespace |-> namespace],
                       None, to_configmap_yaml(last.out, name, namespace)))

NextSerial ==
    \/ \E values \in SeqsUpTo(SerialValues, MaxSeries), spawn_rate \in SerialSpawnRates :
           ToScenarioJson(values, spawn_rate)
    \/ \E name \in {DefaultConfigmapName, ShortName} :
           ToConfigmapYaml(name, DefaultNamespace)

SpecSerial == Init /\ [][NextSerial]_vars

(***************************************************************************)
(* SpecUser: the PetClinic load users of one process.  Each user runs      *)
(* on_start when it is spawned and then tasks in any order; a step is what *)
(* a user does from one wait to the next, with the response the            *)
(* application may give, and the users' steps interleave.  A step that     *)
(* would make pet_ids longer than MaxCache is left out.                    *)
(***************************************************************************)
MaxCache == 2

\* bodies of GET /api/customer/owners
OwnersData ==
    { <<>>,
      << Owner(Some(1), << Keyed(Some(1)) >>) >>,
      << Owner(Some(1), << Keyed(Some(2)), Keyed(None) >>), Owner(None, <<>>) >> }

OwnersResponses ==
    {Response(200, Some(d)) : d \in OwnersData} \cup {Response(200, None), Response(500, None)}

\* bodies of GET /api/customer/owners/{id}
OwnerData == {Owner(Some(1), << Keyed(Some(1)) >>), Owner(Some(2), <<>>)}

OwnerResponses ==
    {Response(200, Some(d)) : d \in OwnerData}
        \cup {Response(200, None), Response(404, None), Response(500, None)}

VetsResponses ==
    {Response(200, Some(<< Keyed(Some(1)), Keyed(None) >>)), Response(200, Some(<<>>)),
     Response(500, None)}

VisitStatuses == {200, 201, 404, 500}

\* the positions random.choice(list) can take; 1 stands in when the list is
\* empty and nothing is chosen
Picks(list) == IF list = <<>> THEN {1} ELSE 1..Len(list)

\* the frame of user u: its own attributes and the list of the class
Frame(u) ==
    [owner_ids |-> users[u].owner_ids, vet_ids |-> users[u].vet_ids,
     pet_ids |-> pet_ids, at |-> users[u].at, id |-> users[u].id]

\* user u has run to its next wait, or to the end of the task op, where the id
\* it picked goes out of scope and task takes note of the return
Runs(u, op, status, st) ==
    /\ Len(st.pet_ids) <= MaxCache
    /\ pet_ids' = st.pet_ids
    /\ users' = [users EXCEPT ![u] = [owner_ids |-> st.owner_ids, vet_ids |-> st.vet_ids,
                                      at |-> st.at,
                                      id |-> IF st.at = "idle" THEN 0 ELSE st.id]]
    /\ task' = IF st.at /= "idle" THEN task
               ELSE IF op = "schedule_visit"
               THEN TaskRec(u, op, st.id, status, pet_ids, st.pet_ids)
               ELSE TaskName(op)
    /\ UNCHANGED <<rng, registry, fs, last, prev, ncalls>>

OnStart(u) ==
    /\ users[u].at = "spawned"
    /\ Runs(u, "on_start", 0, on_start(Frame(u)))

OnStartOwners(u, response) ==
    /\ users[u].at = "on_start/owners"
    /\ Runs(u, "on_start", response.status, on_start_owners(Frame(u), response))

OnStartVets(u, response) ==
    /\ users[u].at = "on_start/vets"
    /\ Runs(u, "on_start", response.status, on_start_vets(Frame(u), response))

BrowseOwners(u) ==
    /\ users[u].at = "idle"
    /\ Runs(u, "browse_owners", 0, browse_owners(Frame(u)))

BrowseOwnersResponse(u, response) ==
    /\ users[u].at = "browse_owners"
    /\ Runs(u, "browse_owners", response.status, browse_owners_response(Frame(u), response))

ViewOwnerDetails(u, pick) ==
    /\ users[u].at = "idle"
    /\ pick \in Picks(users[u].owner_ids)
    /\ Runs(u, "view_owner_details", 0, view_owner_details(Frame(u), pick))

ViewOwnerDetailsFetched(u, response, pick) ==
    /\ users[u].at = "view_owner_details/fetch"
    /\ pick \in Picks(fetch_owners(Frame(u), response).owner_ids)
    /\ Runs(u, "view_owner_details", 0, view_owner_details_fetched(Frame(u), response, pick))

ViewOwnerDetailsResponse(u, response) ==
    /\ users[u].at = "view_owner_details/owner"
    /\ Runs(u, "view_owner_details", response.status,
            view_owner_details_response(Frame(u), response))

ScheduleVisit(u, pick) ==
    /\ users[u].at = "idle"
    /\ pick \in Picks(pet_ids)
    /\ Runs(u, "schedule_visit", 0, schedule_visit(Frame(u), pick))

ScheduleVisitFetched(u, response, pick) ==
    /\ users[u].at = "schedule_visit/fetch"
    /\ pick \in Picks(fetch_owners(Frame(u), response).pet_ids)
    /\ Runs(u, "schedule_visit", 0, schedule_visit_fetched(Frame(u), response, pick))

ScheduleVisitResponse(u, status) ==
    /\ users[u].at = "schedule_visit/visit"
    /\ Runs(u, "schedule_visit", status, schedule_visit_response(Frame(u), status))

BrowseVets(u) ==
    /\ users[u].at = "idle"
    /\ Runs(u, "browse_vets", 0, browse_vets(Frame(u)))

BrowseVetsResponse(u, response) ==
    /\ users[u].at = "browse_vets"
    /\ Runs(u, "browse_vets", response.status, browse_vets_response(Frame(u), response))

NextUser ==
    \E u \in Users :
        \/ OnStart(u)
        \/ \E response \in OwnersResponses : OnStartOwners(u, response)
        \/ \E response \in VetsResponses : OnStartVets(u, response)
        \/ BrowseOwners(u)
        \/ \E response \in OwnersResponses : BrowseOwnersResponse(u, response)
        \/ \E pick \in 1..MaxCache : ViewOwnerDetails(u, pick)
        \/ \E response \in OwnersResponses, pick \in 1..MaxCache :
               ViewOwnerDetailsFetched(u, response, pick)
        \/ \E response \in OwnerResponses : ViewOwnerDetailsResponse(u, response)
        \/ \E pick \in 1..MaxCache : ScheduleVisit(u, pick)
        \/ \E response \in OwnersResponses, pick \in 1..MaxCache :
               ScheduleVisitFetched(u, response, pick)
        \/ \E status \in VisitStatuses : ScheduleVisitResponse(u, status)
        \/ BrowseVets(u)
        \/ \E response \in VetsResponses : BrowseVetsResponse(u, response)

SpecUser == Init /\ [][NextUser]_vars

(***************************************************************************)
(* Properties                                                              *)
(***************************************************************************)
IsGenerated(inv) ==
    \/ inv.op \in {"generate_values", "build_phase_values"}
    \/ inv.op = "generate" /\ inv.out.via /= "none"

SameCall(a, b) ==
    /\ a.op = b.op
    /\ a.name = b.name
    /\ a.args = b.args
    /\ a.seed = b.seed

\* the invocation was given a seed that np.random.seed refuses
SeedRefused(inv) == inv.seed /= None /\ ~SeedInRange(inv.seed[1])

\* the invocation was given no seed, or one that np.random.seed takes
SeedTaken(inv) == ~SeedRefused(inv)

\* an invocation whose seed was refused failed with the error of
\* np.random.seed, returned no series and left the random source as it was
RefusedAtSeed(inv) ==
    /\ inv.out.status = "ValueError"
    /\ inv.out.values = <<>>
    /\ inv.out.g.nseed = 0
    /\ inv.out.g.ndraw = 0
    /\ Leave(inv.out.g) = inv.rng0

\* C1: two calls generate(preset, seed=K) with the same preset and the same
\* seed K that is not None return the same series: same outcome, same length,
\* same value at every index, whatever state the random source was in.
C1_Determinism ==
    (/\ last.op = "generate"
     /\ prev.op = "generate"
     /\ last.name = prev.name
     /\ last.seed = prev.seed
     /\ last.seed /= None)
    => /\ last.out.status = prev.out.status
       /\ Len(last.out.values) = Len(prev.out.values)
       /\ \A i \in 1..Len(last.out.values) : last.out.values[i] = prev.out.values[i]

\* two calls of a preset with the seed -1: both failed at np.random.seed
C1_WitnessRefused ==
    /\ last.op = "generate"
    /\ prev.op = "generate"
    /\ last.name = prev.name
    /\ last.name \in DOMAIN PRESETS
    /\ last.seed = Some(-1)
    /\ prev.seed = Some(-1)
    /\ last.out.status = "ValueError"
    /\ prev.out.status = "ValueError"

\* two seeded calls of a preset with spikes enabled, entered with the random
\* source in different states, both returning a series after drawing in the
\* spike pass too
C1_Witness ==
    /\ last.op = "generate"
    /\ prev.op = "generate"
    /\ last.name = prev.name
    /\ last.name \in DOMAIN PRESETS
    /\ last.seed = prev.seed
    /\ last.seed /= None
    /\ last.rng0 /= prev.rng0
    /\ last.out.status = "ok"
    /\ Len(last.out.values) >= 4
    /\ last.out.spiked /= {}

\* C2: an invocation of a generator given a seed, any integer, 0 included,
\* seeds the shared source exactly once and before its first draw, and reads
\* stream seed from its start, so that what it returns is what the same call
\* returned before; an invocation without a seed never seeds and reads on from
\* the state the preceding invocation left.
C2_SeedOncePerInvocation ==
    IsGenerated(last) =>
        IF last.seed /= None
        THEN /\ last.out.g.nseed = 1
             /\ last.out.g.drawsAtSeed = 0
             /\ rng = [key |-> last.seed[1], pos |-> last.out.g.ndraw]
             /\ (prev.op /= "none" /\ SameCall(prev, last))
                    => last.out.values = prev.out.values
        ELSE /\ last.out.g.nseed = 0
             /\ rng = [key |-> last.rng0.key, pos |-> last.rng0.pos + last.out.g.ndraw]
             /\ prev.op /= "none" => last.rng0 = Leave(prev.out.g)

\* C2 as amended: the same of a seed in 0 .. 2^32 - 1; an invocation given an
\* integer outside this range fails at np.random.seed, which neither seeds
\* nor draws and leaves the source in the state the preceding invocation left.
C2_SeedOnceInRange ==
    IsGenerated(last) =>
        /\ prev.op /= "none" => last.rng0 = Leave(prev.out.g)
        /\ IF SeedRefused(last)
           THEN RefusedAtSeed(last) /\ rng = last.rng0
           ELSE IF last.seed /= None
           THEN /\ last.out.g.nseed = 1
                /\ last.out.g.drawsAtSeed = 0
                /\ rng = [key |-> last.seed[1], pos |-> last.out.g.ndraw]
                /\ (prev.op /= "none" /\ SameCall(prev, last))
                       => last.out.values = prev.out.values
           ELSE /\ last.out.g.nseed = 0
                /\ rng = [key |-> last.rng0.key,
                          pos |-> last.rng0.pos + last.out.g.ndraw]

\* a generator given the seed -1 failed, and the unseeded generation that
\* follows reads the source from the state the failed one found it in
C2_WitnessRefused ==
    /\ IsGenerated(prev)
    /\ prev.seed = Some(-1)
    /\ prev.out.status = "ValueError"
    /\ prev.out.g.nseed = 0
    /\ IsGenerated(last)
    /\ last.seed = None
    /\ last.out.status = "ok"
    /\ last.rng0 = prev.rng0

\* a generator seeded with 0 that drew samples, after an invocation that left
\* the source in the middle of another stream
C2_Witness ==
    /\ IsGenerated(last)
    /\ IsGenerated(prev)
    /\ last.seed = Some(0)
    /\ last.out.status = "ok"
    /\ last.out.g.ndraw > 0
    /\ last.rng0.key /= 0
    /\ last.rng0.pos > 0

\* a call whose third step compacts to -1 minutes failed in its third block,
\* after the two draws of each of the first two blocks (the one sample of the
\* second is assigned past the end of the array of one element, which numpy
\* accepts) and the jittered mean of the third; the unseeded call that follows
\* reads on after these five draws
C2_WitnessAfterFailure ==
    /\ prev.op = "generate_values"
    /\ prev.args.durations = <<28, 16, -20>>
    /\ prev.out.status = "ValueError"
    /\ prev.out.g.ndraw = 5
    /\ last.op = "generate_values"
    /\ last.seed = None
    /\ last.out.status = "ok"
    /\ last.rng0 = [key |-> prev.rng0.key, pos |-> prev.rng0.pos + 5]

\* a call of -1 days failed when the array was allocated, before any draw
C2_WitnessNoAllocation ==
    /\ last.op = "generate_values"
    /\ last.args.num_days = -1
    /\ last.seed = None
    /\ last.out.status = "ValueError"
    /\ last.out.g.ndraw = 0
    /\ rng = last.rng0

InvalidDurations(p) ==
    \/ SumSeq(p.durations) /= 24
    \/ Len(p.durations) /= Len(p.avg_values[1])

\* C3: generate_values on durations that do not sum to 24, or that are not as
\* many as the columns of avg_values, fails with the assertion's error, returns
\* no series and has drawn nothing from the random source when it fails.  Given
\* a seed np.random.seed refuses it fails as well, with the error of the
\* seeding, which comes before the assertions.
C3_RejectsBadDurations ==
    (last.op = "generate_values" /\ InvalidDurations(last.args))
    => /\ last.out.status = IF SeedRefused(last) THEN "ValueError" ELSE "AssertionError"
       /\ last.out.values = <<>>
       /\ last.out.g.ndraw = 0
       /\ rng.pos = IF last.seed = None \/ SeedRefused(last) THEN last.rng0.pos ELSE 0

\* a call with durations summing to 25 and as many durations as columns
C3_Witness ==
    /\ last.op = "generate_values"
    /\ SumSeq(last.args.durations) = 25
    /\ Len(last.args.durations) = Len(last.args.avg_values[1])
    /\ last.args.num_days > 0
    /\ last.out.status = "AssertionError"

\* the product durations[i] * step_length, step_length = 60 / (24 / day_length_hours),
\* as the double the program computes
StepMinutes(duration, dlh) == FMulInt(duration, StepLength(dlh))

\* k is the floor of the double x: k <= x < k + 1
IsFloor(k, x) == FLeq(FromInt(k), x) /\ FLess(x, FromInt(k + 1))

\* floor(durations[i] * step_length): the double product lies within one of
\* the exact quotient durations[i] * 60 * day_length_hours / 24
FloorMinutes(duration, dlh) ==
    LET q == (duration * 60 * dlh.n) \div (24 * dlh.d)
    IN  CHOOSE k \in (q - 1)..(q + 1) : IsFloor(k, StepMinutes(duration, dlh))

\* the sum over the steps of floor(durations[i] * step_length)
SumFloorMinutes(durations, dlh) ==
    SumSeq([i \in 1..Len(durations) |-> FloorMinutes(durations[i], dlh)])

\* the series has num_days * sum of floor(durations[i] * step_length) samples
\* and each of them was written by exactly one (day, step) block
FlooredAndTiled(inv) ==
    /\ Len(inv.out.values)
           = inv.args.num_days
                 * SumFloorMinutes(inv.args.durations, inv.args.day_length_hours)
    /\ Len(inv.out.owner) = Len(inv.out.values)
    /\ \A i \in 1..Len(inv.out.values) : Len(inv.out.owner[i]) = 1

\* a time axis that runs forward: no negative number of days, a positive day
\* length and no step of negative length
ForwardAxis(args) ==
    /\ args.num_days >= 0
    /\ args.day_length_hours.n > 0
    /\ \A i \in 1..Len(args.durations) : args.durations[i] >= 0

\* C4: for every input that passes validation, a generate_values that returns
\* has num_days * sum of floor(durations[i] * step_length) samples, and every
\* sample was written by exactly one (day, step) block.
C4_SeriesLength ==
    (last.op = "generate_values" /\ last.out.status = "ok") => FlooredAndTiled(last)

\* C4 on a time axis that runs forward: the length and the tiling hold
C4_SeriesLengthForward ==
    (last.op = "generate_values" /\ last.out.status = "ok" /\ ForwardAxis(last.args))
    => FlooredAndTiled(last)

\* a negative number of days of negative length: the array is allocated with a
\* positive length, no block runs and the zeros are returned
C4_WitnessUnwritten ==
    /\ last.op = "generate_values"
    /\ last.out.status = "ok"
    /\ last.args.num_days < 0
    /\ Len(last.out.values) > 0
    /\ \A i \in 1..Len(last.out.values) : last.out.owner[i] = <<>>

\* two days whose steps lose fractional minutes: fewer samples than the
\* floor of the whole day's compacted minutes
C4_Witness ==
    /\ last.op = "generate_values"
    /\ last.out.status = "ok"
    /\ last.args.num_days = 2
    /\ Len(last.args.durations) = 2
    /\ Len(last.out.values) > 0
    /\ Len(last.out.values)
           < last.args.num_days * FloorMinutes(24, last.args.day_length_hours)

\* a day of 2.9 hours in steps of 4 and 20 hours: 28 + 144 samples, the double
\* products lying under 29 and 145
C4_WitnessInexact ==
    /\ last.op = "generate_values"
    /\ last.out.status = "ok"
    /\ last.args.durations = <<4, 20>>
    /\ last.args.day_length_hours = [n |-> 29, d |-> 10]
    /\ Len(last.out.values) = 172

RECURSIVE SumDurations(_)
SumDurations(phases) ==
    IF phases = <<>> THEN 0 ELSE Head(phases).duration_min + SumDurations(Tail(phases))

\* the state of the random source when the generator reaches phase k: the
\* state after seeding, advanced by the samples of the phases before k
AtPhase(inv, k) ==
    LET g0 == SeedIfGiven(Enter(inv.rng0), inv.seed).g
    IN  Leave(Advance(g0, SumDurations(SubSeq(inv.args.phases, 1, k - 1))))

\* phase k of the list generated alone, without spikes, from that state
Alone(inv, k) ==
    build_phase_values(
        [inv.args EXCEPT !.phases = <<inv.args.phases[k]>>, !.spike_prob = 0,
                         !.seed = None],
        AtPhase(inv, k))

\* the series before the spike pass holds, at the positions of phase k, the
\* samples of phase k generated alone, and the returned series holds there
\* these samples or their spiked and clamped values
OwnSegments(inv) ==
    \A k \in 1..Len(inv.args.phases) :
        \E off \in {SumDurations(SubSeq(inv.args.phases, 1, k - 1))},
           own \in {Alone(inv, k).values} :
            \A j \in 1..inv.args.phases[k].duration_min :
                /\ inv.out.base[off + j] = own[j]
                /\ \/ inv.out.values[off + j] = own[j]
                   \/ /\ (off + j) \in inv.out.spiked
                      /\ inv.out.values[off + j]
                             = FMax(SpikeValue(own[j], inv.args.spike_mult),
                                    FromInt(inv.args.min_value))

\* C5: for any ordered list of flat and ramp phases, build_phase_values returns
\* a series of length sum of duration_min whose samples at the positions of
\* phase i come from phase i's parameters alone, in list order.
C5_PhaseConcat ==
    last.op = "build_phase_values"
    => /\ last.out.status = "ok"
       /\ Len(last.out.values) = SumDurations(last.args.phases)
       /\ OwnSegments(last)

\* C5 on the lists that hold at least one phase, given no seed or a seed that
\* np.random.seed takes
C5_PhaseConcatNonEmpty ==
    (last.op = "build_phase_values" /\ last.args.phases /= <<>> /\ SeedTaken(last))
    => /\ last.out.status = "ok"
       /\ Len(last.out.values) = SumDurations(last.args.phases)
       /\ OwnSegments(last)

\* a flat phase followed by a ramp: the first sample of the ramp is the
\* ramp's own start, far from the flat phase's level
C5_TwoPhases ==
    /\ last.op = "build_phase_values"
    /\ last.out.status = "ok"
    /\ Len(last.args.phases) = 2
    /\ last.args.phases[1].kind = "flat"
    /\ last.args.phases[1].duration_min = MaxDur
    /\ last.args.phases[2].kind = "ramp"
    /\ last.args.phases[2].sigma = 0
    /\ last.args.spike_prob = 0
    /\ last.out.values[MaxDur + 1] = FromInt(last.args.phases[2].start[1])
    /\ last.out.values[MaxDur] /= last.out.values[MaxDur + 1]

\* C6: every value of a series returned by generate_values or by
\* build_phase_values is at least min_value.
C6_FloorClamp ==
    (last.op \in {"generate_values", "build_phase_values"} /\ last.out.status = "ok")
    => \A i \in 1..Len(last.out.values) :
           FLeq(FromInt(last.args.min_value), last.out.values[i])

\* C6 where a clamp ran: build_phase_values always, generate_values when the
\* days are not negative (every sample is written by a block, clamped) or the
\* spike pass ran (spike_prob > 0, clamped at its end)
C6_FloorClampWhereClamped ==
    (/\ last.op \in {"generate_values", "build_phase_values"}
     /\ last.out.status = "ok"
     /\ \/ last.op = "build_phase_values"
        \/ last.args.num_days >= 0
        \/ last.args.spike_prob > 0)
    => \A i \in 1..Len(last.out.values) :
           FLeq(FromInt(last.args.min_value), last.out.values[i])

\* a negative number of days of negative length with the spike pass off: the
\* zeros of the allocated array are returned, under a min_value of 1
C6_WitnessUnclamped ==
    /\ last.op = "generate_values"
    /\ last.out.status = "ok"
    /\ last.args.num_days < 0
    /\ last.args.spike_prob = 0
    /\ last.args.min_value = 1
    /\ Len(last.out.values) > 0
    /\ \A i \in 1..Len(last.out.values) : last.out.values[i] = Zero

\* a ramp from a negative start without noise: its first points are raised to
\* min_value, its last ones are above it
C6_WitnessNegativeStart ==
    /\ last.op = "build_phase_values"
    /\ last.out.status = "ok"
    /\ Len(last.args.phases) = 1
    /\ last.args.phases[1].kind = "ramp"
    /\ last.args.phases[1].start /= <<>>
    /\ last.args.phases[1].start[1] < 0
    /\ last.out.values[1] = FromInt(last.args.min_value)
    /\ FLess(FromInt(last.args.min_value), last.out.values[Len(last.out.values)])

\* a negative spike_mult sent a spiked sample below min_value and the final
\* clamp brought it back; another sample stayed above min_value
C6_Witness ==
    /\ last.op \in {"generate_values", "build_phase_values"}
    /\ last.out.status = "ok"
    /\ last.args.spike_mult < 0
    /\ \E i \in last.out.spiked :
           /\ FLess(SpikeValue(last.out.base[i], last.args.spike_mult),
                    FromInt(last.args.min_value))
           /\ last.out.values[i] = FromInt(last.args.min_value)
    /\ \E i \in 1..Len(last.out.values) :
           FLess(FromInt(last.args.min_value), last.out.values[i])

\* C7: generate and run_preset on a name that is not in the registry fail at
\* once with the lookup's error: no series, the random source neither seeded
\* nor drawn from, no directory and no file created.
C7_UnknownPreset ==
    (last.op \in {"generate", "run_preset"} /\ last.name \notin DOMAIN registry)
    => /\ last.out.status = "KeyError"
       /\ last.out.values = <<>>
       /\ last.out.g.nseed = 0
       /\ last.out.g.ndraw = 0
       /\ rng = last.rng0
       /\ fs = last.fs0
       /\ last.op = "run_preset" => last.out.steps = <<>>

\* run_preset on an unknown name with a seed, in a fresh file system, after
\* an invocation that left the random source in the middle of a stream
C7_Witness ==
    /\ last.op = "run_preset"
    /\ last.name = "nonexistent"
    /\ last.seed /= None
    /\ last.out.status = "KeyError"
    /\ last.rng0.pos > 0
    /\ fs.dirs = {}

\* C8: generate on a registry entry whose kind is neither "core" nor "phases"
\* fails with the unsupported-kind error: it returns no series, calls neither
\* generator and leaves the random source as it was.
C8_UnsupportedKind ==
    (/\ last.op = "generate"
     /\ last.name \in DOMAIN registry
     /\ registry[last.name].type \notin {"core", "phases"})
    => /\ last.out.status = "ValueError"
       /\ last.out.values = <<>>
       /\ last.out.via = "none"
       /\ last.out.g.nseed = 0
       /\ last.out.g.ndraw = 0
       /\ rng = last.rng0

\* generate with a seed on the entry of kind "replay", after an invocation
\* that left the random source in the middle of a stream
C8_Witness ==
    /\ last.op = "generate"
    /\ last.name = "custom"
    /\ last.seed = Some(0)
    /\ last.out.status = "ValueError"
    /\ last.rng0.pos > 0

\* n is v truncated toward zero: no further from zero than v, less than one
\* away from it, and not of the opposite sign
IsTruncation(n, v) ==
    /\ FLeq(FromInt(Abs(n)), FAbs(v))
    /\ FLess(FAbs(v), FromInt(Abs(n) + 1))
    /\ v.s >= 0 => n >= 0
    /\ v.s <= 0 => n <= 0

\* C9: to_scenario_json returns as many entries as values, in order, entry i
\* being n_users = values[i] truncated toward zero, the given spawn_rate and
\* duration 1.
C9_ScenarioEntries ==
    last.op = "to_scenario_json"
    => /\ Len(last.out) = Len(last.args.values)
       /\ \A i \in 1..Len(last.out) :
              /\ DOMAIN last.out[i] = {"n_users", "spawn_rate", "duration"}
              /\ IsTruncation(last.out[i].n_users, last.args.values[i])
              /\ last.out[i].spawn_rate = last.args.spawn_rate
              /\ last.out[i].duration = 1

\* 49.9 became 49 and -1.5 became -1
C9_Witness ==
    /\ last.op = "to_scenario_json"
    /\ last.args.values = <<Ratio(499, 10), Ratio(-3, 2)>>
    /\ last.out[1].n_users = 49
    /\ last.out[2].n_users = -1

\* C10: the YAML of to_configmap_yaml, parsed, holds under data["scenario.json"]
\* a JSON text that decodes to the list to_scenario_json returned, entry for
\* entry and in order.
C10_RoundTrip ==
    last.op = "to_configmap_yaml"
    => LET y == YamlScenarioJson(last.out)
           d == JsonLoads(y.text)
       IN  /\ y.ok
           /\ d.ok
           /\ Len(d.list) = Len(last.args.scenario_json)
           /\ \A i \in 1..Len(d.list) : d.list[i] = EntryObject(last.args.scenario_json[i])

\* a two-entry list with a negative and a four-digit user count went through
C10_Witness ==
    /\ last.op = "to_configmap_yaml"
    /\ prev.op = "to_scenario_json"
    /\ prev.args.values = <<Ratio(-3, 2), FromInt(1500)>>
    /\ Len(JsonLoads(YamlScenarioJson(last.out).text).list) = 2

\* the empty list went through
C10_WitnessEmpty ==
    /\ last.op = "to_configmap_yaml"
    /\ last.args.scenario_json = <<>>
    /\ JsonLoads(YamlScenarioJson(last.out).text).ok

\* C11: the text that YAML parsing reads under data["scenario.json"] is, byte for
\* byte, json.dumps(scenario_json, indent=2): no character added, removed or
\* changed.
C11_ByteIdentical ==
    last.op = "to_configmap_yaml"
    => LET y == YamlScenarioJson(last.out)
       IN  /\ y.ok
           /\ y.text = JsonDumps(last.args.scenario_json)

\* what the parse gives instead: the JSON text followed by one newline, the final
\* line break that the block scalar keeps
C11_OneNewlineAdded ==
    last.op = "to_configmap_yaml"
    => LET y == YamlScenarioJson(last.out)
       IN  /\ y.ok
           /\ y.text = JsonDumps(last.args.scenario_json) \o <<NL>>

RunSteps == <<"generate", "to_scenario_json", "makedirs", "write_json", "write_yaml", "save_plots">>

\* the four files of a run, in the order run_preset writes them
RunFiles(inv) ==
    LET dir == inv.args.output_dir
    IN  << Path(dir, "", inv.name, "json"), Path(dir, "", inv.name, "yaml"),
           Path(dir, "workload_sorted_", inv.name, "png"),
           Path(dir, "workload_timeseries_", inv.name, "png") >>

\* the preset and its spawn_rate were found
LookedUp(inv) ==
    /\ inv.name \in DOMAIN registry
    /\ "spawn_rate" \in DOMAIN registry[inv.name]

\* the directory can be made in file system f: it is there, or no file has its
\* path or stands on the way to it
CanMake(f, dir) ==
    \/ dir \in f.dirs
    \/ (Ancestors(dir) \cup {dir}) \cap DOMAIN f.files = {}

\* how far a run entered in file system inv.fs0 gets: 0 if the lookup or the
\* generation fails, 1 if the directory cannot be made, 1 + k if the first k - 1
\* of the four files are written and the path of file k is a directory, 6 if
\* every step is done
StepsDone(inv, gen) ==
    IF ~LookedUp(inv) \/ gen.status /= "ok" THEN 0
    ELSE IF ~CanMake(inv.fs0, inv.args.output_dir) THEN 1
    ELSE LET blocked == {k \in 1..4 : RunFiles(inv)[k] \in inv.fs0.dirs}
         IN  IF blocked = {} THEN 6
             ELSE 1 + (CHOOSE k \in blocked : \A j \in blocked : k <= j)

\* what the files of a run hold when they are written
RunTexts(inv, gen) ==
    LET sj == to_scenario_json(gen.values, registry[inv.name].spawn_rate)
    IN  << JsonDumps(sj),
           to_configmap_yaml(sj, inv.args.configmap_name, inv.args.namespace),
           PlotBytes, PlotBytes >>

\* C12: run_preset does generate, to_scenario_json, the directory and
\* {preset}.json, {preset}.yaml and the plots in this order, a step starting
\* only when the one before it has succeeded: a run that got n steps far has
\* left what these n steps do and nothing of a later step.  The generation is
\* done once, from the state the random source was entered in, whatever happens
\* after it, and both files serialize its series.  A run whose generation fails
\* leaves no directory, file or plot and returns nothing.
C12_StepOrder ==
    last.op = "run_preset"
    => \E gen \in {generate(last.name, last.seed, registry, last.rng0)} :
       \E n \in {StepsDone(last, gen)} :
           LET dir == last.args.output_dir
               written == {RunFiles(last)[k] : k \in 1..(n - 2)}
           IN  /\ last.out.status = "ok" <=> n = 6
               /\ last.out.g = IF LookedUp(last) THEN gen.g ELSE Enter(last.rng0)
               /\ last.out.values = IF n = 6 THEN gen.values ELSE <<>>
               /\ n = 0 => /\ fs = last.fs0
                           /\ LookedUp(last) => last.out.status = gen.status
               /\ n = 1 => /\ fs = last.fs0
                           /\ last.out.status \in {"FileExistsError", "NotADirectoryError"}
               /\ n \in 2..5 => last.out.status = "IsADirectoryError"
               /\ n >= 2 => fs.dirs = last.fs0.dirs \cup Ancestors(dir) \cup {dir}
               /\ DOMAIN fs.files = DOMAIN last.fs0.files \cup written
               /\ \A x \in DOMAIN fs.files \ written : fs.files[x] = last.fs0.files[x]
               /\ n >= 2 => \E texts \in {RunTexts(last, gen)} :
                                \A k \in 1..(n - 2) : fs.files[RunFiles(last)[k]] = texts[k]
               /\ Len(last.out.steps)
                      = IF ~LookedUp(last) THEN 0 ELSE IF n = 0 THEN 1 ELSE Min2(6, n + 2)
               /\ last.out.steps = SubSeq(RunSteps, 1, Len(last.out.steps))

\* a run of linear_ramp in "output" where the path of linear_ramp.yaml is a
\* directory: the series was generated, the directory was there, linear_ramp.json
\* holds the series, the write of linear_ramp.yaml raised and no plot was made
C12_Witness ==
    /\ last.op = "run_preset"
    /\ last.name = "linear_ramp"
    /\ last.args.output_dir = OutputDir
    /\ last.out.status = "IsADirectoryError"
    /\ last.out.g.ndraw > 0
    /\ Path(OutputDir, "", "linear_ramp", "yaml") \in last.fs0.dirs
    /\ Path(OutputDir, "", "linear_ramp", "json") \in DOMAIN fs.files
    /\ Path(OutputDir, "", "linear_ramp", "json") \notin DOMAIN last.fs0.files
    /\ Path(OutputDir, "workload_sorted_", "linear_ramp", "png") \notin DOMAIN fs.files

\* a run whose generation failed on an empty file system, then a run of a
\* phase preset that wrote its four files
C12_WitnessWritten ==
    /\ last.op = "run_preset"
    /\ last.out.status = "ok"
    /\ last.name = "1h_spike"
    /\ prev.op = "run_preset"
    /\ prev.out.status = "ValueError"
    /\ prev.out.steps = <<"generate">>
    /\ last.fs0.dirs = {}
    /\ fs.dirs = {OutputDir}
    /\ Cardinality(DOMAIN fs.files) = 4

\* a run given for directory the path of the file a run before it wrote: the
\* series was generated and the random source read before os.makedirs raised
C12_WitnessDirIsFile ==
    /\ last.op = "run_preset"
    /\ last.out.status = "FileExistsError"
    /\ last.args.output_dir \in DOMAIN last.fs0.files
    /\ last.out.g.ndraw > 0
    /\ rng /= last.rng0
    /\ fs = last.fs0

\* a run given a directory under the path of a file
C12_WitnessDirUnderFile ==
    /\ last.op = "run_preset"
    /\ last.out.status = "NotADirectoryError"
    /\ last.out.g.ndraw > 0
    /\ fs = last.fs0

\* a run where the path of the second plot is a directory: both files and the
\* first plot are written
C12_WitnessSecondPlot ==
    /\ last.op = "run_preset"
    /\ last.out.status = "IsADirectoryError"
    /\ last.out.steps = RunSteps
    /\ Path(OutputDir, "workload_sorted_", "linear_ramp", "png") \in DOMAIN fs.files
    /\ Path(OutputDir, "workload_timeseries_", "linear_ramp", "png") \in fs.dirs

\* a run where the path of linear_ramp.json is a directory: nothing is written
C12_WitnessJsonIsDir ==
    /\ last.op = "run_preset"
    /\ last.out.status = "IsADirectoryError"
    /\ last.out.steps = SubSeq(RunSteps, 1, 4)
    /\ last.out.g.ndraw > 0
    /\ DOMAIN fs.files = DOMAIN last.fs0.files

\* the invocation of a generator repeated from the same state of the random
\* source with spike_mult = 1 and every other parameter as it was
WithUnitSpike(inv) ==
    IF inv.op = "generate_values"
    THEN generate_values([inv.args EXCEPT !.spike_mult = 10], inv.rng0)
    ELSE build_phase_values([inv.args EXCEPT !.spike_mult = 10], inv.rng0)

\* a seeded run of either generator with spike_mult >= 1 that returned a series
SeededSpikeRun(inv) ==
    /\ inv.op \in {"generate_values", "build_phase_values"}
    /\ inv.seed /= None
    /\ inv.out.status = "ok"
    /\ inv.args.spike_mult >= 10

SameSpikesNoLower(inv) ==
    \E one \in {WithUnitSpike(inv)} :
        /\ one.spiked = inv.out.spiked
        /\ Len(one.values) = Len(inv.out.values)
        /\ \A i \in 1..Len(one.values) : FLeq(one.values[i], inv.out.values[i])

\* C13: a seeded run with spike_mult = m >= 1 spikes the indices that the run
\* with spike_mult = 1 spikes and has, at every index, a value at least that of
\* the spike_mult = 1 run, for every load_threshold and min_value.
C13_SpikeMonotone == SeededSpikeRun(last) => SameSpikesNoLower(last)

\* C13 as amended: the same, for load_threshold and min_value that are not both
\* negative.
C13_SpikeMonotoneNonNegative ==
    /\ SeededSpikeRun(last)
    /\ last.args.load_threshold >= 0 \/ last.args.min_value >= 0
    => SameSpikesNoLower(last)

\* a seeded run of generate_values with spike_mult = 1.4 and the default
\* threshold and floor in which a spiked sample is above its value in the
\* spike_mult = 1 run
C13_Witness ==
    /\ SeededSpikeRun(last)
    /\ last.op = "generate_values"
    /\ last.args.spike_mult = 14
    /\ last.args.load_threshold = 200
    /\ last.args.min_value = 1
    /\ \E one \in {WithUnitSpike(last)} :
           \E i \in last.out.spiked : FLess(one.values[i], last.out.values[i])

\* the same in a run of build_phase_values
C13_WitnessPhases ==
    /\ SeededSpikeRun(last)
    /\ last.op = "build_phase_values"
    /\ last.args.spike_mult = 14
    /\ \E one \in {WithUnitSpike(last)} :
           \E i \in last.out.spiked : FLess(one.values[i], last.out.values[i])

\* a spiked sample of 360 under spike_mult 1.4: the double product lies under
\* 504, at 503.99999999999994
C13_WitnessShort ==
    /\ SeededSpikeRun(last)
    /\ last.op = "build_phase_values"
    /\ last.args.spike_mult = 14
    /\ \E one \in {WithUnitSpike(last)}, i \in last.out.spiked :
           /\ one.values[i] = FromInt(360)
           /\ FLess(last.out.values[i], FromInt(504))
           /\ IntOf(last.out.values[i]) = 503

\* point 7 of the ramp of 8 points from 0 to 240, spiked under spike_mult 1.4:
\* the double product is 288
C13_WitnessRamp ==
    /\ SeededSpikeRun(last)
    /\ last.op = "build_phase_values"
    /\ last.args.phases = << Phase("ramp", 8, 240, Some(0), 0) >>
    /\ last.args.spike_mult = 14
    /\ 7 \in last.out.spiked
    /\ last.out.values[7] = FromInt(288)
    /\ \E one \in {WithUnitSpike(last)} :
           /\ FLess(FromInt(205), one.values[7])
           /\ FLess(one.values[7], FromInt(206))

\* the pre-noise targets of simulated day d of a run of generate_values, one
\* per step
DayTargets(inv, d) ==
    LET nsteps == Len(inv.args.durations)
    IN  [k \in 1..nsteps |-> inv.out.targets[d * nsteps + k].avg]

\* C14: simulated day d of generate_values takes its pre-noise targets from row
\* d mod row_count of avg_values, so a day past the table has, at every step,
\* the target of day d mod row_count.
C14_RowCycling ==
    last.op = "generate_values" /\ last.out.status = "ok"
    => LET rows == Len(last.args.avg_values)
           nsteps == Len(last.args.durations)
       IN  /\ Len(last.out.targets) = Max2(0, last.args.num_days) * nsteps
           /\ \A d \in 0..(last.args.num_days - 1) :
                  /\ DayTargets(last, d) = last.args.avg_values[(d % rows) + 1]
                  /\ \A k \in 1..nsteps :
                         /\ last.out.targets[d * nsteps + k].day = d
                         /\ last.out.targets[d * nsteps + k].step = k - 1
                  /\ d >= rows => DayTargets(last, d) = DayTargets(last, d % rows)

\* three days on a table of two rows: the third day has the targets of the
\* first, which are not those of the second
C14_Witness ==
    /\ last.op = "generate_values"
    /\ last.out.status = "ok"
    /\ Len(last.args.avg_values) = 2
    /\ last.args.num_days = 3
    /\ DayTargets(last, 2) = DayTargets(last, 0)
    /\ DayTargets(last, 2) /= DayTargets(last, 1)

\* a run of build_phase_values on a single phase without noise, with the
\* default spike parameters
SinglePhaseRun(inv, kind) ==
    /\ inv.op = "build_phase_values"
    /\ Len(inv.args.phases) = 1
    /\ inv.args.phases[1].kind = kind
    /\ inv.args.phases[1].sigma = 0
    /\ inv.args.spike_prob = PhaseDefaults.spike_prob
    /\ inv.args.spike_mult = PhaseDefaults.spike_mult
    /\ inv.args.load_threshold = PhaseDefaults.load_threshold

\* C15: a single Flat(duration_min = d, target = t, sigma = 0) with
\* t >= min_value gives, for any seed, d values that all equal t.
C15_FlatExact ==
    /\ SinglePhaseRun(last, "flat")
    /\ last.args.phases[1].target >= last.args.min_value
    => /\ last.out.status = "ok"
       /\ Len(last.out.values) = last.args.phases[1].duration_min
       /\ \A i \in 1..Len(last.out.values) :
              last.out.values[i] = FromInt(last.args.phases[1].target)

\* C15 as amended: the same for no seed and for any seed in 0 .. 2^32 - 1;
\* with another seed the call fails at np.random.seed and yields no series.
C15_FlatExactSeedInRange ==
    /\ SinglePhaseRun(last, "flat")
    /\ last.args.phases[1].target >= last.args.min_value
    => IF SeedRefused(last) THEN RefusedAtSeed(last)
       ELSE /\ last.out.status = "ok"
            /\ Len(last.out.values) = last.args.phases[1].duration_min
            /\ \A i \in 1..Len(last.out.values) :
                   last.out.values[i] = FromInt(last.args.phases[1].target)

\* Flat(5, 50, sigma = 0) with seed -1 failed and gave no series
C15_WitnessRefused ==
    /\ SinglePhaseRun(last, "flat")
    /\ last.args.phases[1].duration_min = 5
    /\ last.args.phases[1].target = 50
    /\ last.seed = Some(-1)
    /\ last.out.status = "ValueError"
    /\ last.out.values = <<>>

\* Flat(5, 50, sigma = 0) with seed 3 gave five values of 50
C15_Witness ==
    /\ SinglePhaseRun(last, "flat")
    /\ last.args.phases[1].duration_min = 5
    /\ last.args.phases[1].target = 50
    /\ last.seed = Some(3)
    /\ last.out.values = [i \in 1..5 |-> FromInt(50)]

\* without a seed as well
C15_WitnessUnseeded ==
    /\ SinglePhaseRun(last, "flat")
    /\ last.args.phases[1].duration_min = 5
    /\ last.seed = None
    /\ last.out.values = [i \in 1..5 |-> FromInt(50)]

\* a single ramp without noise from a given start s to a target t, with
\* min_value <= s <= t and at least dmin samples
RampRun(inv, dmin) ==
    /\ SinglePhaseRun(inv, "ramp")
    /\ inv.args.phases[1].start /= None
    /\ inv.args.phases[1].duration_min >= dmin
    /\ inv.args.min_value <= inv.args.phases[1].start[1]
    /\ inv.args.phases[1].start[1] <= inv.args.phases[1].target

\* the series has d values, never decreases, starts at s and ends at t
RampShape(inv) ==
    LET ph == inv.args.phases[1]
        v == inv.out.values
    IN  /\ inv.out.status = "ok"
        /\ Len(v) = ph.duration_min
        /\ \A i \in 1..(Len(v) - 1) : FLeq(v[i], v[i + 1])
        /\ v[1] = FromInt(ph.start[1])
        /\ v[Len(v)] = FromInt(ph.target)

\* C16: a single Ramp(duration_min = d, start = s, target = t, sigma = 0) with
\* d >= 1 and min_value <= s <= t gives d non-decreasing values, the first s
\* and the last t.
C16_RampEnds == RampRun(last, 1) => RampShape(last)

\* C16 as amended: the same for d >= 2; with d = 1 the single value is s.
\* This is said of a call given no seed or a seed that np.random.seed takes.
C16_RampEndsTwoPoints ==
    /\ (RampRun(last, 2) /\ SeedTaken(last)) => RampShape(last)
    /\ (RampRun(last, 1) /\ SeedTaken(last) /\ last.args.phases[1].duration_min = 1)
       => /\ last.out.status = "ok"
          /\ last.out.values = << FromInt(last.args.phases[1].start[1]) >>

\* a ramp of one point from 10 to 300: the point is 10, not the target
C16_WitnessOnePoint ==
    /\ RampRun(last, 1)
    /\ last.args.phases = << Phase("ramp", 1, 300, Some(10), 0) >>
    /\ last.out.values = << FromInt(10) >>

\* the ramp of the linear_ramp preset: 60 values from 10 to 1500
C16_Witness ==
    /\ RampRun(last, 2)
    /\ last.args.phases = PRESETS["linear_ramp"].phases
    /\ Len(last.out.values) = 60
    /\ last.out.values[1] = FromInt(10)
    /\ FLess(last.out.values[1], last.out.values[2])
    /\ last.out.values[60] = FromInt(1500)

\* the ramp of 15 points from 10 to 240: point 8 is the double under 125, whose
\* integer part is 124
C16_WitnessInexact ==
    /\ RampRun(last, 2)
    /\ last.args.phases = << Phase("ramp", 15, 240, Some(10), 0) >>
    /\ last.args.spike_prob = 0
    /\ RampShape(last)
    /\ FLess(last.out.values[8], FromInt(125))
    /\ IntOf(last.out.values[8]) = 124

\* a run of generate_values that returned a series, on the time axis (durations,
\* day_length_hours, num_days) of a registered preset
OnTimeAxisOf(inv, x) ==
    /\ inv.op = "generate_values"
    /\ inv.out.status = "ok"
    /\ inv.args.durations = PRESETS[x].durations
    /\ inv.args.day_length_hours = PRESETS[x].day_length_hours
    /\ inv.args.num_days = PRESETS[x].num_days

\* C17: a series of generate_values has num_days * day_length_hours * 60
\* samples, day_length_hours * 60 for each simulated day: 14 * 180 on the time
\* axis of 2weeks, 1440 on that of 7days and hpa_stress.
C17_WholeDays ==
    /\ last.op = "generate_values" /\ last.out.status = "ok"
       => Len(last.out.values) * last.args.day_length_hours.d
              = last.args.num_days * last.args.day_length_hours.n * 60
    /\ OnTimeAxisOf(last, "2weeks") => Len(last.out.values) = 14 * 180
    /\ OnTimeAxisOf(last, "7days") => Len(last.out.values) = 1440
    /\ OnTimeAxisOf(last, "hpa_stress") => Len(last.out.values) = 1440

\* every step's compacted length durations[i] * step_length is a whole number,
\* in exact arithmetic
WholeSteps(durations, dlh) ==
    \A i \in 1..Len(durations) : (durations[i] * 60 * dlh.n) % (24 * dlh.d) = 0

\* C17 as amended: on a time axis that runs forward (num_days >= 0,
\* day_length_hours > 0, no negative duration) a simulated day has the sum over
\* the steps of floor(durations[i] * step_length) samples, which is at most
\* day_length_hours * 60 and equal to it only when every step's compacted
\* length is whole; the series has num_days times that: 14 * 180 on the time
\* axis of 2weeks, 7 * 204 = 1428 on that of 7days and hpa_stress.
C17_TruncatedDays ==
    /\ last.op = "generate_values" /\ last.out.status = "ok" /\ ForwardAxis(last.args)
       => LET dlh == last.args.day_length_hours
              perday == SumFloorMinutes(last.args.durations, dlh)
          IN  /\ Len(last.out.values) = last.args.num_days * perday
              /\ perday * dlh.d <= dlh.n * 60
              /\ perday * dlh.d = dlh.n * 60 => WholeSteps(last.args.durations, dlh)
    /\ OnTimeAxisOf(last, "2weeks") => Len(last.out.values) = 14 * 180
    /\ OnTimeAxisOf(last, "7days") => Len(last.out.values) = 7 * 204
    /\ OnTimeAxisOf(last, "hpa_stress") => Len(last.out.values) = 7 * 204

\* the week of 7days and hpa_stress at full length: 1428 samples, twelve short
\* of 24 hours
C17_Witness ==
    /\ OnTimeAxisOf(last, "7days")
    /\ OnTimeAxisOf(last, "hpa_stress")
    /\ last.args.avg_values = WEEK_AVG_VALUES
    /\ Len(last.out.values) = 1428

\* the fortnight of 2weeks at full length: 2520 samples, 180 a day
C17_WitnessWhole ==
    /\ OnTimeAxisOf(last, "2weeks")
    /\ WholeSteps(last.args.durations, last.args.day_length_hours)
    /\ Len(last.out.values) = 2520

\* C18: no call of generate or run_preset, whether it returned or failed,
\* changes the registry: every entry has the keys and the values it was defined
\* with, type and spawn_rate are still there, and an entry of presets.py the
\* client did not replace is the one presets.py defines.
C18_RegistryReadOnly ==
    /\ [][ncalls' # ncalls /\ last'.op \in {"generate", "run_preset"}
              => registry' = registry]_vars
    /\ [](\A x \in DOMAIN registry : {"type", "spawn_rate"} \subseteq DOMAIN registry[x])
    /\ [](\A x \in DOMAIN PRESETS \ RegisteredNames :
              /\ x \in DOMAIN registry
              /\ registry[x] = InitialRegistry[x]
              /\ \A k \in DOMAIN PRESETS[x] \ {"day_length_hours", "num_days", "phases"} :
                     registry[x][k] = PRESETS[x][k])

\* generate and then run_preset returned a series for the same entry, which
\* still has its type and its spawn_rate
C18_Witness ==
    /\ prev.op = "generate"
    /\ prev.name = "linear_ramp"
    /\ prev.out.status = "ok"
    /\ last.op = "run_preset"
    /\ last.name = "linear_ramp"
    /\ last.out.status = "ok"
    /\ registry["linear_ramp"].type = "phases"
    /\ registry["linear_ramp"].spawn_rate = 50

\* a call that failed and a core preset generated: the table is the one defined
C18_WitnessFailed ==
    /\ prev.op = "run_preset"
    /\ prev.out.status = "ValueError"
    /\ last.op = "run_preset"
    /\ last.name = "7days"
    /\ last.out.status = "ok"
    /\ registry["7days"].avg_values = WEEK_AVG_VALUES

\* the client replaced the entry of 7days by one of kind replay, and the run
\* that then failed left the client's entry as the client defined it
C18_WitnessReplaced ==
    /\ prev.op = "register"
    /\ prev.name = "7days"
    /\ last.op = "run_preset"
    /\ last.name = "7days"
    /\ last.out.status = "ValueError"
    /\ registry["7days"] = CustomPreset
    /\ fs.dirs = {}

\* a run of generate_values that returned a series
CoreRun(inv) == inv.op = "generate_values" /\ inv.out.status = "ok"

\* C19: the samples of a (day, step) block of generate_values have std-dev
\* sigma_high if the block's jittered mean this_avg is above load_threshold and
\* sigma_low otherwise.
C19_RegimeFromJitteredMean ==
    CoreRun(last)
    => \A k \in 1..Len(last.out.targets) :
           LET t == last.out.targets[k]
           IN  t.sigma = IF FLess(FromInt(last.args.load_threshold), t.this_avg)
                         THEN last.args.sigma_high ELSE last.args.sigma_low

\* C19 as amended: the regime is chosen from the table's pre-noise average avg
\* of the block, sigma_high if avg > load_threshold and sigma_low otherwise,
\* whatever this_avg was drawn.
C19_RegimeFromTableAverage ==
    CoreRun(last)
    => \A k \in 1..Len(last.out.targets) :
           LET t == last.out.targets[k]
           IN  t.sigma = IF t.avg > last.args.load_threshold
                         THEN last.args.sigma_high ELSE last.args.sigma_low

\* a block whose table average is above the threshold and whose jittered mean
\* fell under it: its samples have sigma_high
C19_Witness ==
    /\ CoreRun(last)
    /\ last.args.sigma_high /= last.args.sigma_low
    /\ \E k \in 1..Len(last.out.targets) :
           LET t == last.out.targets[k]
           IN  /\ t.avg > last.args.load_threshold
               /\ FLess(t.this_avg, FromInt(last.args.load_threshold))
               /\ t.sigma = last.args.sigma_high

\* a run of either generator that returned a series
GeneratorRun(inv) ==
    inv.op \in {"generate_values", "build_phase_values"} /\ inv.out.status = "ok"

\* the indices whose sample, after the base draws and the first clamp, is
\* above load_threshold
Eligible(inv) ==
    {i \in 1..Len(inv.out.base) :
        FLess(FromInt(inv.args.load_threshold), inv.out.base[i])}

\* the draws made by the spike pass
SpikeDraws(inv) == inv.out.g.ndraw - inv.out.gbase.ndraw

\* the pass went through the samples in index order with one draw for each
\* eligible sample and none for another: the eligible sample that has k
\* eligible samples before it was decided by the k-th draw after the base
\* draws; a sample was multiplied once if it was eligible and its draw fell
\* under spike_prob, and is otherwise what it was
OneDrawPerEligible(inv) ==
    \E elig \in {Eligible(inv)} :
        /\ Len(inv.out.values) = Len(inv.out.base)
        /\ \A i \in 1..Len(inv.out.base) :
               FLeq(FromInt(inv.args.min_value), inv.out.base[i])
        /\ SpikeDraws(inv) = Cardinality(elig)
        /\ inv.out.spiked
               = {i \in elig :
                      UniformAt([key |-> inv.out.gbase.key,
                                 pos |-> inv.out.gbase.pos
                                             + Cardinality({j \in elig : j < i})])
                          < inv.args.spike_prob}
        /\ \A i \in 1..Len(inv.out.base) :
               inv.out.values[i]
                   = IF i \in inv.out.spiked
                     THEN FMax(SpikeValue(inv.out.base[i], inv.args.spike_mult),
                               FromInt(inv.args.min_value))
                     ELSE inv.out.base[i]

\* C20: for every spike_prob, 0 included, the spike pass of either generator
\* runs once after the base draws and the first clamp, in index order, with one
\* draw for each sample above load_threshold and none for another; a sample is
\* multiplied at most once, only if it was above load_threshold, and the others
\* are unchanged.
C20_SpikePassAnyProb == GeneratorRun(last) => OneDrawPerEligible(last)

\* every sample of the series was written by a block of the main loop, clamped:
\* always in build_phase_values, in generate_values unless num_days is negative
\* (then no block runs and the allocated zeros reach the pass as they are)
BlocksWrote(inv) == inv.op = "generate_values" => inv.args.num_days >= 0

\* C20 as amended: on a series the blocks wrote, the same for spike_prob > 0;
\* with spike_prob <= 0 the pass is skipped: no draw is made after the base
\* draws and the series is the one the first clamp left.
C20_SpikePassPositiveProb ==
    (GeneratorRun(last) /\ BlocksWrote(last))
    => IF last.args.spike_prob > 0
       THEN OneDrawPerEligible(last)
       ELSE /\ SpikeDraws(last) = 0
            /\ last.out.spiked = {}
            /\ last.out.values = last.out.base

\* a pass that met a sample under the threshold, spiked an eligible sample and
\* left another eligible sample alone
C20_Witness ==
    /\ GeneratorRun(last)
    /\ last.args.spike_prob > 0
    /\ last.out.spiked /= {}
    /\ Eligible(last) \ last.out.spiked /= {}
    /\ Cardinality(Eligible(last)) < Len(last.out.base)
    /\ SpikeDraws(last) = Cardinality(Eligible(last))

\* spike_prob = 0 on a series with samples above the threshold: no draw
C20_WitnessSkipped ==
    /\ GeneratorRun(last)
    /\ last.args.spike_prob = 0
    /\ Eligible(last) /= {}
    /\ SpikeDraws(last) = 0

\* the ramp of 23 points from 0 to 400 with threshold 200 and spike_prob 1:
\* point 12 is the double over 200, so the samples 12 to 23 are eligible, twelve
\* draws are made and point 12 becomes 280
C20_WitnessInexact ==
    /\ GeneratorRun(last)
    /\ last.op = "build_phase_values"
    /\ last.args.phases = << Phase("ramp", 23, 400, Some(0), 0) >>
    /\ last.args.spike_prob = 100
    /\ FLess(FromInt(200), last.out.base[12])
    /\ IntOf(last.out.base[12]) = 200
    /\ Eligible(last) = 12..23
    /\ SpikeDraws(last) = 12
    /\ last.out.spiked = 12..23
    /\ last.out.values[12] = FromInt(280)

\* the phases with every unset ramp start written out as 0
WithZeroStart(phases) ==
    [k \in 1..Len(phases) |->
        IF phases[k].kind = "ramp" /\ phases[k].start = None
        THEN [phases[k] EXCEPT !.start = Some(0)]
        ELSE phases[k]]

\* a call of build_phase_values whose k-th phase is a ramp with start unset
UnsetRampAt(inv, k) ==
    /\ inv.op = "build_phase_values"
    /\ k \in 1..Len(inv.args.phases)
    /\ inv.args.phases[k].kind = "ramp"
    /\ inv.args.phases[k].start = None

\* C21: a ramp phase whose start is unset behaves exactly like the same phase
\* with start = 0: for every seed and every position of the phase in the list,
\* build_phase_values returns the same series for both, whatever the target or
\* last value of the preceding phase is.
C21_UnsetStartIsZero ==
    /\ last.op = "build_phase_values"
    /\ \E k \in 1..Len(last.args.phases) : UnsetRampAt(last, k)
    => \E zero \in {build_phase_values(
                          [last.args EXCEPT !.phases = WithZeroStart(@)], last.rng0)} :
           /\ zero.status = last.out.status
           /\ zero.values = last.out.values
           /\ Leave(zero.g) = rng

\* a seeded call whose second phase ramps to 300 with start unset, after a flat
\* phase at 300: the series was returned, and with the start written out as 10
\* instead it differs
C21_Witness ==
    /\ UnsetRampAt(last, 2)
    /\ last.args.phases[1].kind = "flat"
    /\ last.args.phases[1].target = 300
    /\ last.args.phases[2].target = 300
    /\ last.args.phases[2].duration_min = MaxDur
    /\ last.seed = Some(3)
    /\ last.out.status = "ok"
    /\ Len(last.out.values) = last.args.phases[1].duration_min + MaxDur
    /\ build_phase_values(
           [last.args EXCEPT !.phases[2].start = Some(10)], last.rng0).values
          /= last.out.values

\* the same with the ramp first in the list and no seed
C21_WitnessFirstUnseeded ==
    /\ UnsetRampAt(last, 1)
    /\ Len(last.args.phases) = 2
    /\ last.seed = None
    /\ last.out.status = "ok"

\* a call of generate_values that one of the two assertions rejected
FailedValidation(inv) ==
    /\ inv.op = "generate_values"
    /\ InvalidDurations(inv.args)
    /\ inv.out.status = "AssertionError"

\* a generation without a seed
UnseededGeneration(inv) ==
    /\ inv.op \in {"generate", "generate_values"}
    /\ inv.seed = None

\* what the invocation returns when it is entered with the random source in
\* state r
Replayed(inv, r) ==
    IF inv.op = "generate" THEN generate(inv.name, inv.seed, registry, r)
    ELSE generate_values(inv.args, r)

\* the state of the random source after np.random.seed(k)
Reseeded(k) == [key |-> k, pos |-> 0]

\* C22: a generate_values call that fails validation leaves the shared random
\* source in exactly the state it had before the call, also when a seed was
\* passed, so an unseeded generation that follows the failed call yields the
\* same series as if the failed call had never been made.
C22_FailedCallLeavesSource ==
    /\ FailedValidation(last) => rng = last.rng0
    /\ (FailedValidation(prev) /\ UnseededGeneration(last))
       => /\ last.rng0 = prev.rng0
          /\ last.out.values = Replayed(last, prev.rng0).values

\* C22 as amended: a generate_values call that fails validation draws nothing
\* from the shared random source.  Without a seed it leaves the source in the
\* state it had before the call, and an unseeded generation that follows
\* yields the same series as if the failed call had never been made; with a
\* seed K it leaves the source reseeded with K, and an unseeded generation that
\* follows yields the series it yields on a source just seeded with K.  A seed
\* that np.random.seed refuses fails the call before the validation, the
\* source left as it was.
C22_FailedCallSeedsOnly ==
    /\ (last.op = "generate_values" /\ InvalidDurations(last.args) /\ SeedRefused(last))
       => RefusedAtSeed(last) /\ rng = last.rng0
    /\ FailedValidation(last)
       => /\ last.out.g.ndraw = 0
          /\ rng = IF last.seed = None THEN last.rng0 ELSE Reseeded(last.seed[1])
    /\ (FailedValidation(prev) /\ UnseededGeneration(last))
       => LET left == IF prev.seed = None THEN prev.rng0 ELSE Reseeded(prev.seed[1])
          IN  /\ last.rng0 = left
              /\ last.out.values = Replayed(last, left).values

\* a call with seed 3 rejected for durations summing to 23, entered with the
\* source in another stream, and after it an unseeded generation whose series
\* is not the one the source would have given without the rejected call
C22_Witness ==
    /\ FailedValidation(prev)
    /\ prev.seed = Some(3)
    /\ prev.rng0 /= Reseeded(3)
    /\ UnseededGeneration(last)
    /\ last.out.status = "ok"
    /\ Len(last.out.values) > 0
    /\ last.rng0 = Reseeded(3)
    /\ last.out.values /= Replayed(last, prev.rng0).values

\* a call with seed -1 and durations summing to 23 failed at the seeding, and
\* the unseeded generation after it read the source as the call found it
C22_WitnessRefused ==
    /\ prev.op = "generate_values"
    /\ InvalidDurations(prev.args)
    /\ prev.seed = Some(-1)
    /\ prev.out.status = "ValueError"
    /\ UnseededGeneration(last)
    /\ last.out.status = "ok"
    /\ last.rng0 = prev.rng0

\* an unseeded rejected call, and after it an unseeded generation
C22_WitnessUnseeded ==
    /\ FailedValidation(prev)
    /\ prev.seed = None
    /\ UnseededGeneration(last)
    /\ last.out.status = "ok"
    /\ Len(last.out.values) > 0
    /\ last.rng0 = prev.rng0

\* how many times x stands in list
Occurrences(list, x) == Cardinality({i \in 1..Len(list) : list[i] = x})

\* schedule_visit has returned after a 404 for the pet it picked
VisitNotFound ==
    /\ task.op = "schedule_visit"
    /\ task.status = 404

\* C23: after any sequence of fetch_owners, browse_owners and
\* view_owner_details calls, when schedule_visit receives a 404 for pet id p,
\* p is removed from the cached pet_ids: once the task returns, pet_ids does
\* not contain p, so that p cannot be chosen again until a later owners
\* response adds it back.
C23_NotFoundEvicts == VisitNotFound => ~Contains(task.left, task.id)

\* what the task does instead: it takes one p out of pet_ids, the first, if
\* pet_ids still holds p when the response arrives
C23_OneOccurrenceRemoved ==
    VisitNotFound
    => IF Contains(task.cached, task.id)
       THEN /\ Occurrences(task.left, task.id) = Occurrences(task.cached, task.id) - 1
            /\ Len(task.left) = Len(task.cached) - 1
       ELSE task.left = task.cached

\* two owners responses had each added pet 1; the 404 for pet 1 left one
C23_StillCached ==
    /\ VisitNotFound
    /\ task.id = 1
    /\ Occurrences(task.cached, 1) = 2
    /\ Contains(task.left, 1)

\* while the user waited for the response another user's 404 took the pet out
C23_EvictedMeanwhile ==
    /\ VisitNotFound
    /\ ~Contains(task.cached, task.id)

====
